---- MODULE Spec2Model ----
(***************************************************************************)
(* A model of the job lifecycle of the generative-media backends:          *)
(*   - FluxClient (src/backend/core/flux_client.py): payload building in   *)
(*     generate_image, the status query get_task_status and the blocking   *)
(*     poll loop wait_for_completion;                                      *)
(*   - Sora (src/backend/core/sora.py): the two-attempt multipart          *)
(*     submission create_video_generation_job_with_images.                 *)
(* Python values are modelled as follows: a dict is a function whose       *)
(* DOMAIN is the set of its keys, None is the value None, a list is a      *)
(* sequence, a string built by an f-string is the sequence of its parts,   *)
(* and a parameter value of generate_image is the string of its literal    *)
(* (1024 is "1024", False is "False", the empty string is "").             *)
(***************************************************************************)
EXTENDS Integers, Sequences, FiniteSets, TLC

VARIABLES
    pc,             \* position of the running call
    self,           \* the client object of the call (FluxClient or Sora)
    now,            \* the wall clock, time.time(), in seconds
    start_time,     \* wait_for_completion: local start_time
    max_wait_time,  \* wait_for_completion: argument
    poll_interval,  \* wait_for_completion: argument
    status,         \* wait_for_completion: local status (last answer)
    answers,        \* history: the status answers the call has received
    sleeps,         \* history: the durations asked of time.sleep
    args,           \* the arguments of a Sora or generate_image call
    heap,           \* the io.BytesIO objects created so far
    response,       \* the response to submission attempt 1
    response2,      \* the response to submission attempt 2
    stack,          \* the callers waiting for the running call, outermost first
    backend,        \* the backend's record of the task, as a status query reads it
    server,         \* the web server: its requests and its event loops
    http,           \* history: the HTTP requests sent, in order
    ret,            \* the value returned by the call
    err             \* the exception raised by the call

vars == <<pc, self, now, start_time, max_wait_time, poll_interval, status,
          answers, sleeps, args, heap, response, response2, stack, backend,
          server, http, ret, err>>

\* the state of the callers, of the backend's task and of the web server
hostVars == <<stack, backend, server>>

\* the arguments of a call and the state that only
\* create_video_generation_job_with_images touches
soraLocals == <<args, heap, response, response2>>

\* the state that only wait_for_completion touches
waitLocals == <<start_time, max_wait_time, poll_interval, status, answers,
                sleeps>>

-----------------------------------------------------------------------------
(* Bounds of the model *)

MaxWaitTime == 4        \* max_wait_time ranges over 0..MaxWaitTime
MaxPollInterval == 3    \* poll_interval ranges over 1..MaxPollInterval
MaxQueryTime == 1       \* a status query takes 0..MaxQueryTime seconds
MaxOversleep == 1       \* time.sleep(d) takes d..d+MaxOversleep seconds
MaxImages == 2          \* images and image_filenames hold 0..MaxImages elements
MaxPolls == 3           \* the backend's task is terminal by status query MaxPolls+1
MaxRequests == 4        \* a caller starts a further call while fewer requests were sent
MaxClients == 2         \* requests that arrive at the server

-----------------------------------------------------------------------------
(* Python values *)

None == "<None>"

NoValue == <<>>

NoError == [type |-> "", msg |-> <<>>]

Range(f) == { f[i] : i \in DOMAIN f }

\* dict.get(key, default)
Get(d, key, default) == IF key \in DOMAIN d THEN d[key] ELSE default

-----------------------------------------------------------------------------
(* FluxClient: construction *)

task_id == "task-1"

\* FluxClient.__init__
FluxClient(api_key) ==
    [api_key |-> api_key,
     base_url |-> "https://api.bfl.ml",
     headers |-> [k \in {"Authorization", "Content-Type"} |->
                    IF k = "Authorization" THEN <<"Bearer ", api_key>>
                    ELSE <<"application/json">>]]

-----------------------------------------------------------------------------
(* The backend's answers to GET /v1/get_result: JSON objects. The status  *)
(* field may be missing; the terminal values are the literal strings      *)
(* "Ready" and "Error".                                                   *)

StatusAnswers ==
    { [status |-> "Ready", result |-> [sample |-> "https://delivery/a.jpg"]],
      [status |-> "Ready"],
      [status |-> "Error", error |-> "unsafe content"],
      [status |-> "Error"],
      [status |-> "Pending"],
      [status |-> "ready"],
      [id |-> task_id] }

\* FluxClient.get_task_status: the request it sends
get_task_status_request(tid) ==
    [method |-> "GET", url |-> <<self.base_url, "/v1/get_result">>,
     params |-> [id |-> tid], headers |-> self.headers]

-----------------------------------------------------------------------------
(* FluxClient.wait_for_completion *)

\* start_time = time.time()
wait_for_completion ==
    /\ pc = "wait_for_completion"
    /\ start_time' = now
    /\ pc' = "while"
    /\ UNCHANGED <<now, max_wait_time, poll_interval, status, answers, sleeps,
                   http, ret, err,
                   self, hostVars, soraLocals>>

\* the loop condition: while time.time() - start_time < max_wait_time
while_condition == now - start_time < max_wait_time

\* the loop is entered: the body starts with the status query
while_enter ==
    /\ pc = "while"
    /\ while_condition
    /\ pc' = "get_task_status"
    /\ UNCHANGED <<now, start_time, max_wait_time, poll_interval, status,
                   answers, sleeps, http, ret, err,
                   self, hostVars, soraLocals>>

\* a variant of the loop without its exit: the call hangs where the
\* condition is false
while_exit_missing ==
    /\ pc = "while"
    /\ ~ while_condition
    /\ FALSE
    /\ UNCHANGED vars

\* the loop is left: raise TimeoutError
while_exit ==
    /\ pc = "while"
    /\ ~ while_condition
    /\ pc' = "raised"
    /\ err' = [type |-> "TimeoutError",
               msg |-> <<"Flux task ", task_id, " did not complete within ",
                         max_wait_time, " seconds">>]
    /\ UNCHANGED <<now, start_time, max_wait_time, poll_interval, status,
                   answers, sleeps, http, ret,
                   self, hostVars, soraLocals>>

\* status = self.get_task_status(task_id), the backend answering 2xx
get_task_status ==
    /\ pc = "get_task_status"
    /\ http' = Append(http, get_task_status_request(task_id))
    /\ \E d \in 0..MaxQueryTime : now' = now + d
    /\ \E a \in StatusAnswers :
          /\ status' = a
          /\ answers' = Append(answers, a)
    /\ pc' = "if_status"
    /\ UNCHANGED <<start_time, max_wait_time, poll_interval, sleeps, ret, err,
                   self, hostVars, soraLocals>>

\* response.raise_for_status() raises: the exception leaves the loop
get_task_status_raises ==
    /\ pc = "get_task_status"
    /\ http' = Append(http, get_task_status_request(task_id))
    /\ \E d \in 0..MaxQueryTime : now' = now + d
    /\ pc' = "raised"
    /\ err' = [type |-> "HTTPError", msg |-> <<"get_result">>]
    /\ UNCHANGED <<start_time, max_wait_time, poll_interval, status, answers,
                   sleeps, ret,
                   self, hostVars, soraLocals>>

\* a variant of return_ready that returns the first answer of the call
return_ready_first_answer ==
    /\ pc = "if_status"
    /\ Get(status, "status", None) = "Ready"
    /\ ret' = answers[1]
    /\ pc' = "returned"
    /\ UNCHANGED <<now, start_time, max_wait_time, poll_interval, status,
                   answers, sleeps, http, err,
                   self, hostVars, soraLocals>>

\* a variant of return_ready that compares the status without regard to case
return_ready_any_case ==
    /\ pc = "if_status"
    /\ Get(status, "status", None) \in {"Ready", "ready"}
    /\ ret' = status
    /\ pc' = "returned"
    /\ UNCHANGED <<now, start_time, max_wait_time, poll_interval, status,
                   answers, sleeps, http, err,
                   self, hostVars, soraLocals>>

\* if status.get("status") == "Ready": return status
return_ready ==
    /\ pc = "if_status"
    /\ Get(status, "status", None) = "Ready"
    /\ ret' = status
    /\ pc' = "returned"
    /\ UNCHANGED <<now, start_time, max_wait_time, poll_interval, status,
                   answers, sleeps, http, err,
                   self, hostVars, soraLocals>>

\* a variant of raise_error that takes "Error" for a transient answer
raise_error_retry ==
    /\ pc = "if_status"
    /\ Get(status, "status", None) # "Ready"
    /\ Get(status, "status", None) = "Error"
    /\ sleeps' = Append(sleeps, poll_interval)
    /\ \E over \in 0..MaxOversleep : now' = now + poll_interval + over
    /\ pc' = "while"
    /\ UNCHANGED <<start_time, max_wait_time, poll_interval, status, answers,
                   http, ret, err,
                   self, hostVars, soraLocals>>

\* a variant of raise_error that leaves the backend's detail out
raise_error_no_detail ==
    /\ pc = "if_status"
    /\ Get(status, "status", None) # "Ready"
    /\ Get(status, "status", None) = "Error"
    /\ err' = [type |-> "Exception",
               msg |-> <<"Flux generation failed: ", "Unknown error">>]
    /\ pc' = "raised"
    /\ UNCHANGED <<now, start_time, max_wait_time, poll_interval, status,
                   answers, sleeps, http, ret,
                   self, hostVars, soraLocals>>

\* elif status.get("status") == "Error": raise Exception(...)
raise_error ==
    /\ pc = "if_status"
    /\ Get(status, "status", None) # "Ready"
    /\ Get(status, "status", None) = "Error"
    /\ err' = [type |-> "Exception",
               msg |-> <<"Flux generation failed: ",
                         Get(status, "error", "Unknown error")>>]
    /\ pc' = "raised"
    /\ UNCHANGED <<now, start_time, max_wait_time, poll_interval, status,
                   answers, sleeps, http, ret,
                   self, hostVars, soraLocals>>

\* a variant of sleep that goes round the loop without sleeping
sleep_skipped ==
    /\ pc = "if_status"
    /\ Get(status, "status", None) # "Ready"
    /\ Get(status, "status", None) # "Error"
    /\ pc' = "while"
    /\ UNCHANGED <<now, start_time, max_wait_time, poll_interval, status,
                   answers, sleeps, http, ret, err,
                   self, hostVars, soraLocals>>

\* otherwise: time.sleep(poll_interval), then the loop condition again
sleep ==
    /\ pc = "if_status"
    /\ Get(status, "status", None) # "Ready"
    /\ Get(status, "status", None) # "Error"
    /\ sleeps' = Append(sleeps, poll_interval)
    /\ \E over \in 0..MaxOversleep : now' = now + poll_interval + over
    /\ pc' = "while"
    /\ UNCHANGED <<start_time, max_wait_time, poll_interval, status, answers,
                   http, ret, err,
                   self, hostVars, soraLocals>>

-----------------------------------------------------------------------------
(* A call of wait_for_completion(task_id, max_wait_time, poll_interval) *)

InitWait ==
    /\ stack = <<>>
    /\ backend = NoValue
    /\ server = NoValue
    /\ pc = "wait_for_completion"
    /\ self = FluxClient("bfl-key")
    /\ args = NoValue
    /\ heap = <<>>
    /\ response = NoValue
    /\ response2 = NoValue
    /\ now \in 0..1
    /\ start_time = 0
    /\ max_wait_time \in 0..MaxWaitTime
    /\ poll_interval \in 1..MaxPollInterval
    /\ status = NoValue
    /\ answers = <<>>
    /\ sleeps = <<>>
    /\ http = <<>>
    /\ ret = NoValue
    /\ err = NoError

NextWait ==
    \/ wait_for_completion
    \/ while_enter
    \/ while_exit
    \/ get_task_status
    \/ get_task_status_raises
    \/ return_ready
    \/ raise_error
    \/ sleep

SpecWait == InitWait /\ [][NextWait]_vars

\* the thread that runs the call keeps running: a step that stays possible
\* is taken
SpecWaitFair == SpecWait /\ WF_vars(NextWait)

-----------------------------------------------------------------------------
(* Python text: str() of a non-negative int and json.dumps. A text is the  *)
(* sequence of its pieces; digits are pieces of one character.             *)

Digit(d) == <<"0", "1", "2", "3", "4", "5", "6", "7", "8", "9">>[d + 1]

RECURSIVE str(_)
\* str(n) for an int n >= 0
str(n) == IF n < 10 THEN <<Digit(n)>>
          ELSE Append(str(n \div 10), Digit(n % 10))

\* k.lower() on the header names in use
lower(k) ==
    CASE k = "Content-Type" -> "content-type"
      [] k = "Authorization" -> "authorization"
      [] OTHER -> k

RECURSIVE json_join(_)
\* ", ".join(parts)
json_join(parts) ==
    IF parts = <<>> THEN <<>>
    ELSE IF Len(parts) = 1 THEN parts[1]
    ELSE parts[1] \o <<", ">> \o json_join(Tail(parts))

RECURSIVE json_dumps(_)
\* json.dumps(v) with the default separators. A JSON value v is tagged:
\* <<"int", n>>, <<"float", n>> (the float n.0), <<"str", s>>,
\* <<"list", values>>, <<"dict", pairs>>, a dict keeping its keys in
\* insertion order as Python's does.
json_dumps(v) ==
    CASE v[1] = "int" -> str(v[2])
      [] v[1] = "float" -> str(v[2]) \o <<".", "0">>
      [] v[1] = "str" -> <<"\"", v[2], "\"">>
      [] v[1] = "list" ->
            <<"[">> \o json_join([i \in 1..Len(v[2]) |-> json_dumps(v[2][i])])
                    \o <<"]">>
      [] v[1] = "dict" ->
            <<"{">> \o json_join([i \in 1..Len(v[2]) |->
                           <<"\"", v[2][i][1], "\"", ": ">>
                               \o json_dumps(v[2][i][2])])
                    \o <<"}">>

\* {**d, **e}
Merge(d, e) ==
    [k \in DOMAIN d \cup DOMAIN e |-> IF k \in DOMAIN e THEN e[k] ELSE d[k]]

Min(a, b) == IF a <= b THEN a ELSE b

\* zip(a, b) of two lists
zip(a, b) == [i \in 1..Min(Len(a), Len(b)) |-> <<a[i], b[i]>>]

-----------------------------------------------------------------------------
(* Sora: construction *)

\* Sora.__init__
Sora(resource_name, deployment_name, api_key, api_version) ==
    [resource_name |-> resource_name,
     deployment_name |-> deployment_name,
     api_key |-> api_key,
     api_version |-> api_version,
     base_url |-> <<"https://", resource_name,
                    ".openai.azure.com/openai/v1/video">>,
     headers |-> [k \in {"api-key", "Content-Type"} |->
                    IF k = "api-key" THEN api_key ELSE "application/json"]]

-----------------------------------------------------------------------------
(* requests: a multipart POST and the backend's response *)

\* io.BytesIO(content): a stream positioned at offset 0
BytesIO(content) == [content |-> content, pos |-> 0]

\* The request requests.post(url, headers=, data=, files=) puts on the wire:
\* each attachment is read from the current position of its stream to the end.
multipart_request(url, hdrs, data, files, h) ==
    [method |-> "POST", url |-> url, headers |-> hdrs, data |-> data,
     files |-> [i \in 1..Len(files) |->
                  LET stream == files[i][2][2] IN
                  [name |-> files[i][1],
                   filename |-> files[i][2][1],
                   stream |-> stream,
                   offset |-> h[stream].pos,
                   content |-> SubSeq(h[stream].content, h[stream].pos + 1,
                                      Len(h[stream].content)),
                   content_type |-> files[i][2][3]]]]

\* the streams after the request has read them to the end
streams_read(files, h) ==
    [j \in 1..Len(h) |->
        IF \E i \in 1..Len(files) : files[i][2][2] = j
        THEN [h[j] EXCEPT !.pos = Len(h[j].content)]
        ELSE h[j]]

\* The responses of the backend to the n-th submission request of the call:
\* accepted with a job description, or rejected for one of several reasons.
SubmitResponses(n) ==
    { [status_code |-> 200, body |-> [id |-> <<"job-", n>>, status |-> "queued"]],
      [status_code |-> 201, body |-> [id |-> <<"job-", n>>, status |-> "queued"]],
      [status_code |-> 400, body |-> [error |-> "crop_bounds is required", request |-> n]],
      [status_code |-> 401, body |-> [error |-> "unauthorized", request |-> n]],
      [status_code |-> 500, body |-> [error |-> "internal error", request |-> n]] }

\* Response.ok
ok(r) == r.status_code < 400

\* the exception of Response.raise_for_status()
HTTPError(r) == [type |-> "HTTPError", msg |-> <<r.status_code, r.body>>]

-----------------------------------------------------------------------------
(* Sora.create_video_generation_job_with_images *)

url == self.base_url \o <<"/generations/jobs?api-version=", self.api_version>>

\* a variant of build_files that hands out the streams already built
build_files_reused(h) ==
    LET pairs == zip(args.images, args.image_filenames) IN
    IF h = <<>>
    THEN [files |-> [i \in 1..Len(pairs) |->
                       <<"files", <<pairs[i][2], i, "image/jpeg">>>>],
          heap |-> [i \in 1..Len(pairs) |-> BytesIO(pairs[i][1])]]
    ELSE [files |-> [i \in 1..Len(pairs) |->
                       <<"files", <<pairs[i][2], i, "image/jpeg">>>>],
          heap |-> h]

\* build_files(): one new BytesIO per pair of zip(images, image_filenames);
\* h is the heap before the call, the result holds the list and the heap after
build_files(h) ==
    LET pairs == zip(args.images, args.image_filenames) IN
    [files |-> [i \in 1..Len(pairs) |->
                  <<"files", <<pairs[i][2], Len(h) + i, "image/jpeg">>>>],
     heap |-> h \o [i \in 1..Len(pairs) |-> BytesIO(pairs[i][1])]]

multipart_headers ==
    [k \in {k \in DOMAIN self.headers : lower(k) # "content-type"} |->
        self.headers[k]]

base_data ==
    [prompt |-> args.prompt,
     height |-> str(args.height),
     width |-> str(args.width),
     n_seconds |-> str(args.n_seconds),
     n_variants |-> str(args.n_variants),
     model |-> self.deployment_name]

\* the descriptor of attempt 1 for one filename
inpaint_item_no_crop(filename) ==
    <<"dict", << <<"frame_index", <<"int", 0>>>>,
                 <<"type", <<"str", "image">>>>,
                 <<"file_name", <<"str", filename>>>> >> >>

\* the descriptor of attempt 2 for one filename
inpaint_item_with_crop(filename) ==
    <<"dict", << <<"frame_index", <<"int", 0>>>>,
                 <<"type", <<"str", "image">>>>,
                 <<"file_name", <<"str", filename>>>>,
                 <<"crop_bounds",
                   <<"dict", << <<"left_fraction", <<"float", 0>>>>,
                                <<"top_fraction", <<"float", 0>>>>,
                                <<"right_fraction", <<"float", 1>>>>,
                                <<"bottom_fraction", <<"float", 1>>>> >> >> >> >> >>

data_no_crop ==
    Merge(base_data,
          [inpaint_items |->
              json_dumps(<<"list", [i \in 1..Len(args.image_filenames) |->
                              inpaint_item_no_crop(args.image_filenames[i])]>>)])

\* a variant of data_with_crop that repeats the payload of attempt 1
data_with_crop_unchanged == data_no_crop

data_with_crop ==
    Merge(base_data,
          [inpaint_items |->
              json_dumps(<<"list", [i \in 1..Len(args.image_filenames) |->
                              inpaint_item_with_crop(args.image_filenames[i])]>>)])

\* a variant that takes Content-Type out of the client's own headers
create_video_generation_job_with_images_own_headers ==
    /\ pc = "create_video_generation_job_with_images"
    /\ LET built == build_files(heap) IN
          /\ http' = Append(http, multipart_request(url, multipart_headers,
                                      data_no_crop, built.files, built.heap))
          /\ heap' = streams_read(built.files, built.heap)
    /\ self' = [self EXCEPT !.headers = multipart_headers]
    /\ response' \in SubmitResponses(Len(http) + 1)
    /\ pc' = "if_response_ok"
    /\ UNCHANGED <<hostVars, now, waitLocals, args, response2, ret, err>>

\* attempt 1: requests.post(url, headers=multipart_headers,
\* data=data_no_crop, files=build_files()), the backend answering
create_video_generation_job_with_images ==
    /\ pc = "create_video_generation_job_with_images"
    /\ LET built == build_files(heap) IN
          /\ http' = Append(http, multipart_request(url, multipart_headers,
                                      data_no_crop, built.files, built.heap))
          /\ heap' = streams_read(built.files, built.heap)
    /\ response' \in SubmitResponses(Len(http) + 1)
    /\ pc' = "if_response_ok"
    /\ UNCHANGED <<self, hostVars, now, waitLocals, args, response2, ret, err>>

\* attempt 1: requests.post raises (no response): the exception propagates
create_video_generation_job_with_images_raises ==
    /\ pc = "create_video_generation_job_with_images"
    /\ LET built == build_files(heap) IN
          /\ http' = Append(http, multipart_request(url, multipart_headers,
                                      data_no_crop, built.files, built.heap))
          /\ heap' = streams_read(built.files, built.heap)
    /\ err' = [type |-> "ConnectionError", msg |-> <<1>>]
    /\ pc' = "raised"
    /\ UNCHANGED <<self, hostVars, now, waitLocals, args, response, response2, ret>>

\* if response.ok: return response.json()
return_response_json ==
    /\ pc = "if_response_ok"
    /\ ok(response)
    /\ ret' = response.body
    /\ pc' = "returned"
    /\ UNCHANGED <<self, hostVars, now, waitLocals, soraLocals, http, err>>

\* a variant of the retry that first looks at the reason of the rejection
retry_only_on_bad_request ==
    /\ pc = "if_response_ok"
    /\ ~ ok(response)
    /\ \/ /\ response.status_code = 400
          /\ LET built == build_files(heap) IN
                /\ http' = Append(http, multipart_request(url,
                                 multipart_headers, data_with_crop,
                                 built.files, built.heap))
                /\ heap' = streams_read(built.files, built.heap)
          /\ response2' \in SubmitResponses(Len(http) + 1)
          /\ pc' = "if_not_response2_ok"
          /\ UNCHANGED <<self, hostVars, now, waitLocals, args, response, ret, err>>
       \/ /\ response.status_code # 400
          /\ err' = HTTPError(response)
          /\ pc' = "raised"
          /\ UNCHANGED <<self, hostVars, now, waitLocals, soraLocals, http, ret>>

\* attempt 2, after any rejection: requests.post(url,
\* headers=multipart_headers, data=data_with_crop, files=build_files())
retry_with_crop_bounds ==
    /\ pc = "if_response_ok"
    /\ ~ ok(response)
    /\ LET built == build_files(heap) IN
          /\ http' = Append(http, multipart_request(url, multipart_headers,
                                      data_with_crop, built.files, built.heap))
          /\ heap' = streams_read(built.files, built.heap)
    /\ response2' \in SubmitResponses(Len(http) + 1)
    /\ pc' = "if_not_response2_ok"
    /\ UNCHANGED <<self, hostVars, now, waitLocals, args, response, ret, err>>

\* attempt 2: requests.post raises (no response): the exception propagates
retry_with_crop_bounds_raises ==
    /\ pc = "if_response_ok"
    /\ ~ ok(response)
    /\ LET built == build_files(heap) IN
          /\ http' = Append(http, multipart_request(url, multipart_headers,
                                      data_with_crop, built.files, built.heap))
          /\ heap' = streams_read(built.files, built.heap)
    /\ err' = [type |-> "ConnectionError", msg |-> <<2>>]
    /\ pc' = "raised"
    /\ UNCHANGED <<self, hostVars, now, waitLocals, args, response, response2, ret>>

\* a variant of raise_for_status_response2 that raises for attempt 1's response
raise_for_status_response1 ==
    /\ pc = "if_not_response2_ok"
    /\ ~ ok(response2)
    /\ err' = HTTPError(response)
    /\ pc' = "raised"
    /\ UNCHANGED <<self, hostVars, now, waitLocals, soraLocals, http, ret>>

\* if not response2.ok: response2.raise_for_status()
raise_for_status_response2 ==
    /\ pc = "if_not_response2_ok"
    /\ ~ ok(response2)
    /\ err' = HTTPError(response2)
    /\ pc' = "raised"
    /\ UNCHANGED <<self, hostVars, now, waitLocals, soraLocals, http, ret>>

\* return response2.json()
return_response2_json ==
    /\ pc = "if_not_response2_ok"
    /\ ok(response2)
    /\ ret' = response2.body
    /\ pc' = "returned"
    /\ UNCHANGED <<self, hostVars, now, waitLocals, soraLocals, http, err>>

-----------------------------------------------------------------------------
(* A call of create_video_generation_job_with_images *)

\* the lists of at most n elements of S
ListsUpTo(n, S) == UNION { [1..k -> S] : k \in 0..n }

ImageContents == { <<1>>, <<2, 3>> }

Filenames == { "a.jpg", "b.jpg" }

InitSora ==
    /\ stack = <<>>
    /\ backend = NoValue
    /\ server = NoValue
    /\ pc = "create_video_generation_job_with_images"
    /\ self = Sora("res", "sora", "azure-key", "preview")
    /\ args \in [prompt : {"a cat"},
                 images : ListsUpTo(MaxImages, ImageContents),
                 image_filenames : ListsUpTo(MaxImages, Filenames),
                 n_seconds : {5},
                 height : {480},
                 width : {480, 854},
                 n_variants : {1}]
    /\ heap = <<>>
    /\ response = NoValue
    /\ response2 = NoValue
    /\ now = 0
    /\ start_time = 0
    /\ max_wait_time = 0
    /\ poll_interval = 1
    /\ status = NoValue
    /\ answers = <<>>
    /\ sleeps = <<>>
    /\ http = <<>>
    /\ ret = NoValue
    /\ err = NoError

NextSora ==
    \/ create_video_generation_job_with_images
    \/ create_video_generation_job_with_images_raises
    \/ return_response_json
    \/ retry_with_crop_bounds
    \/ retry_with_crop_bounds_raises
    \/ raise_for_status_response2
    \/ return_response2_json

SpecSora == InitSora /\ [][NextSora]_vars

-----------------------------------------------------------------------------
(* FluxClient.generate_image *)

model_endpoints ==
    [m \in {"flux-pro", "flux-pro-ultra", "flux-kontext"} |-> m]

\* bool(v) of a parameter value
Truthy(v) == v \notin {None, "", "False", "0"}

\* a variant of remove_none that keeps every key
remove_none_skipped(p) == p

\* {k: v for k, v in payload.items() if v is not None}
remove_none(p) == [k \in {k \in DOMAIN p : p[k] # None} |-> p[k]]

\* the parameters of flux-pro: payload.update({...})
flux_pro_parameters(kwargs) ==
    [width |-> Get(kwargs, "width", "1024"),
     height |-> Get(kwargs, "height", "1024"),
     prompt_upsampling |-> Get(kwargs, "prompt_upsampling", "False"),
     seed |-> Get(kwargs, "seed", None),
     safety_tolerance |-> Get(kwargs, "safety_tolerance", "2"),
     output_format |-> Get(kwargs, "output_format", "jpeg")]

\* a variant of flux_pro_ultra_parameters in which raw has no default
flux_pro_ultra_parameters_raw_optional(kwargs) ==
    [aspect_ratio |-> Get(kwargs, "aspect_ratio", "16:9"),
     prompt_upsampling |-> Get(kwargs, "prompt_upsampling", "False"),
     seed |-> Get(kwargs, "seed", None),
     safety_tolerance |-> Get(kwargs, "safety_tolerance", "2"),
     output_format |-> Get(kwargs, "output_format", "jpeg"),
     raw |-> Get(kwargs, "raw", None),
     image_prompt |-> Get(kwargs, "image_prompt", None),
     image_prompt_strength |-> Get(kwargs, "image_prompt_strength", "0.1")]

\* the parameters of flux-pro-ultra
flux_pro_ultra_parameters(kwargs) ==
    [aspect_ratio |-> Get(kwargs, "aspect_ratio", "16:9"),
     prompt_upsampling |-> Get(kwargs, "prompt_upsampling", "False"),
     seed |-> Get(kwargs, "seed", None),
     safety_tolerance |-> Get(kwargs, "safety_tolerance", "2"),
     output_format |-> Get(kwargs, "output_format", "jpeg"),
     raw |-> Get(kwargs, "raw", "False"),
     image_prompt |-> Get(kwargs, "image_prompt", None),
     image_prompt_strength |-> Get(kwargs, "image_prompt_strength", "0.1")]

\* the parameters of flux-kontext
flux_kontext_parameters(kwargs) ==
    [width |-> Get(kwargs, "width", "1024"),
     height |-> Get(kwargs, "height", "1024"),
     prompt_upsampling |-> Get(kwargs, "prompt_upsampling", "False"),
     seed |-> Get(kwargs, "seed", None),
     safety_tolerance |-> Get(kwargs, "safety_tolerance", "2"),
     output_format |-> Get(kwargs, "output_format", "jpeg"),
     image_prompt |-> Get(kwargs, "image_prompt", None),
     image_prompt_strength |-> Get(kwargs, "image_prompt_strength", "0.1")]

\* the webhook parameters, added when truthy
webhook_parameters(kwargs) ==
    [k \in {k \in {"webhook_url", "webhook_secret"} :
               Truthy(Get(kwargs, k, None))} |-> kwargs[k]]

\* the payload generate_image posts for a supported model
payload(prompt, model, kwargs) ==
    LET p0 == [prompt |-> prompt]
        p1 == CASE model = "flux-pro" ->
                     Merge(p0, flux_pro_parameters(kwargs))
                [] model = "flux-pro-ultra" ->
                     Merge(p0, flux_pro_ultra_parameters(kwargs))
                [] model = "flux-kontext" ->
                     Merge(p0, flux_kontext_parameters(kwargs))
                [] OTHER -> p0
        p2 == Merge(p1, webhook_parameters(kwargs))
    IN  remove_none(p2)

\* requests.post(endpoint, json=payload, headers=self.headers)
generate_image_request ==
    [method |-> "POST",
     url |-> <<self.base_url, "/v1/", model_endpoints[args.model]>>,
     json |-> payload(args.prompt, args.model, args.kwargs),
     headers |-> self.headers]

\* The bodies of the backend's 2xx answers to a submission
\* (with a task id, or with the id missing, null or empty)
SubmitResults ==
    { [id |-> task_id, polling_url |-> "poll"],
      [status |-> "Pending"],
      [id |-> None],
      [id |-> ""] }

\* a variant that posts to the default endpoint before it raises
generate_image_unsupported_model_after_post ==
    /\ pc = "generate_image"
    /\ args.model \notin DOMAIN model_endpoints
    /\ http' = Append(http, [method |-> "POST",
                             url |-> <<self.base_url, "/v1/", "flux-pro">>,
                             json |-> payload(args.prompt, "flux-pro", args.kwargs),
                             headers |-> self.headers])
    /\ err' = [type |-> "ValueError", msg |-> <<"Unsupported model: ", args.model>>]
    /\ pc' = "raised"
    /\ UNCHANGED <<self, hostVars, now, waitLocals, soraLocals, ret>>

\* if model not in model_endpoints: raise ValueError
generate_image_unsupported_model ==
    /\ pc = "generate_image"
    /\ args.model \notin DOMAIN model_endpoints
    /\ err' = [type |-> "ValueError", msg |-> <<"Unsupported model: ", args.model>>]
    /\ pc' = "raised"
    /\ UNCHANGED <<self, hostVars, now, waitLocals, soraLocals, http, ret>>

\* the payload is built and posted, the backend answers 2xx: return result
generate_image ==
    /\ pc = "generate_image"
    /\ args.model \in DOMAIN model_endpoints
    /\ http' = Append(http, generate_image_request)
    /\ ret' \in SubmitResults
    /\ pc' = "returned"
    /\ UNCHANGED <<self, hostVars, now, waitLocals, soraLocals, err>>

\* a variant that posts again after a non-2xx answer
generate_image_raises_retry ==
    /\ pc = "generate_image"
    /\ args.model \in DOMAIN model_endpoints
    /\ http' = Append(http, generate_image_request)
    /\ UNCHANGED <<pc, self, hostVars, now, waitLocals, soraLocals, ret, err>>

\* the payload is built and posted, response.raise_for_status() raises
generate_image_raises ==
    /\ pc = "generate_image"
    /\ args.model \in DOMAIN model_endpoints
    /\ http' = Append(http, generate_image_request)
    /\ \E code \in {422, 500} :
          err' = [type |-> "HTTPError", msg |-> <<code>>]
    /\ pc' = "raised"
    /\ UNCHANGED <<self, hostVars, now, waitLocals, soraLocals, ret>>

-----------------------------------------------------------------------------
(* A call of generate_image(prompt, model, **kwargs) *)

\* the keyword parameters a caller passes for a model (as the endpoint
\* handlers do) and, for each, the values it supplies when it is not None
ParameterValues(model) ==
    LET common ==
            [prompt_upsampling |-> {"True"},
             seed |-> {"42"},
             safety_tolerance |-> {"6"},
             output_format |-> {"png"},
             webhook_url |-> {"", "https://hook"},
             webhook_secret |-> {"s3cret"}]
        sized == [width |-> {"512"}, height |-> {"768"}]
        prompted == [image_prompt |-> {"aW1hZ2U="},
                     image_prompt_strength |-> {"0.5"}]
    IN  CASE model = "flux-pro" -> Merge(common, sized)
          [] model = "flux-pro-ultra" ->
                Merge(Merge(common, prompted),
                      [aspect_ratio |-> {"1:1"}, raw |-> {"True"}])
          [] model = "flux-kontext" -> Merge(Merge(common, sized), prompted)
          [] OTHER -> [seed |-> {"42"}]

RECURSIVE Bags(_, _)
\* every bag of keyword parameters over the keys: each key absent, None,
\* or one of its supplied values
Bags(keys, values) ==
    IF keys = {} THEN { [k \in {} |-> None] }
    ELSE LET key == CHOOSE k \in keys : TRUE
             rest == Bags(keys \ {key}, values)
         IN  rest \cup
             { [k \in DOMAIN b \cup {key} |-> IF k = key THEN v ELSE b[k]] :
                  b \in rest, v \in values[key] \cup {None} }

ParameterBags(model) ==
    Bags(DOMAIN ParameterValues(model), ParameterValues(model))

Models == {"flux-pro", "flux-pro-ultra", "flux-kontext", "dall-e-3"}

InitGenerate ==
    /\ stack = <<>>
    /\ backend = NoValue
    /\ server = NoValue
    /\ pc = "generate_image"
    /\ self = FluxClient("bfl-key")
    /\ \E m \in Models :
          args \in [prompt : {"a cat"}, model : {m}, kwargs : ParameterBags(m)]
    /\ heap = <<>>
    /\ response = NoValue
    /\ response2 = NoValue
    /\ now = 0
    /\ start_time = 0
    /\ max_wait_time = 0
    /\ poll_interval = 1
    /\ status = NoValue
    /\ answers = <<>>
    /\ sleeps = <<>>
    /\ http = <<>>
    /\ ret = NoValue
    /\ err = NoError

NextGenerate ==
    \/ generate_image_unsupported_model
    \/ generate_image
    \/ generate_image_raises

SpecGenerate == InitGenerate /\ [][NextGenerate]_vars

-----------------------------------------------------------------------------
(* Calls and callers: stack holds the frames that wait for the running    *)
(* call, each with the function and the call it is at.                    *)

Frame(fn, at) == [fn |-> fn, at |-> at]

Top == stack[Len(stack)]

Pop == SubSeq(stack, 1, Len(stack) - 1)

\* the running call has returned to the frame fn, which is at the call at
ReturnedTo(fn, at) ==
    /\ pc = "returned"
    /\ stack # <<>>
    /\ Top = Frame(fn, at)

\* the running call has raised into the frame fn
RaisedInto(fn) ==
    /\ pc = "raised"
    /\ stack # <<>>
    /\ Top.fn = fn

\* str(e) of an exception
str_e(e) == e.msg

-----------------------------------------------------------------------------
(* FluxClient.generate_and_wait *)

DefaultMaxWaitTime == 300

DefaultPollInterval == 5

\* result = self.generate_image(prompt, model, **kwargs)
generate_and_wait ==
    /\ pc = "generate_and_wait"
    /\ stack' = Append(stack, Frame("generate_and_wait", "generate_image"))
    /\ pc' = "generate_image"
    /\ UNCHANGED <<self, backend, server, now, waitLocals, soraLocals, http,
                   ret, err>>

\* task_id = result.get("id"); if not task_id: raise Exception(...)
generate_and_wait_no_task_id ==
    /\ ReturnedTo("generate_and_wait", "generate_image")
    /\ ~ Truthy(Get(ret, "id", None))
    /\ err' = [type |-> "Exception",
               msg |-> <<"No task ID returned from Flux API">>]
    /\ ret' = NoValue
    /\ pc' = "raised"
    /\ stack' = Pop
    /\ UNCHANGED <<self, backend, server, now, waitLocals, soraLocals, http>>

\* a variant that waits for every id but None, the empty one included
generate_and_wait_wait_any_id ==
    /\ ReturnedTo("generate_and_wait", "generate_image")
    /\ Get(ret, "id", None) # None
    /\ max_wait_time' = Get(args.kwargs, "max_wait_time", DefaultMaxWaitTime)
    /\ poll_interval' = DefaultPollInterval
    /\ ret' = NoValue
    /\ stack' = Append(Pop, Frame("generate_and_wait", "wait_for_completion"))
    /\ pc' = "wait_for_completion"
    /\ UNCHANGED <<self, backend, server, now, start_time, status, answers,
                   sleeps, soraLocals, http, err>>

\* self.wait_for_completion(task_id, kwargs.get("max_wait_time", 300)),
\* poll_interval taking its default
generate_and_wait_wait ==
    /\ ReturnedTo("generate_and_wait", "generate_image")
    /\ Truthy(Get(ret, "id", None))
    /\ max_wait_time' = Get(args.kwargs, "max_wait_time", DefaultMaxWaitTime)
    /\ poll_interval' = DefaultPollInterval
    /\ ret' = NoValue
    /\ stack' = Append(Pop, Frame("generate_and_wait", "wait_for_completion"))
    /\ pc' = "wait_for_completion"
    /\ UNCHANGED <<self, backend, server, now, start_time, status, answers,
                   sleeps, soraLocals, http, err>>

\* return self.wait_for_completion(...)
generate_and_wait_return ==
    /\ ReturnedTo("generate_and_wait", "wait_for_completion")
    /\ stack' = Pop
    /\ UNCHANGED <<pc, self, backend, server, now, waitLocals, soraLocals,
                   http, ret, err>>

\* a variant of the propagation that wraps the exception in a new one
generate_and_wait_raises_wrapped ==
    /\ RaisedInto("generate_and_wait")
    /\ stack' = Pop
    /\ err' = [type |-> "Exception", msg |-> <<"Flux failed: ", str_e(err)>>]
    /\ UNCHANGED <<pc, self, backend, server, now, waitLocals, soraLocals,
                   http, ret>>

\* generate_and_wait has no try: an exception of generate_image or of
\* wait_for_completion leaves it as it is
generate_and_wait_raises ==
    /\ RaisedInto("generate_and_wait")
    /\ stack' = Pop
    /\ UNCHANGED <<pc, self, backend, server, now, waitLocals, soraLocals,
                   http, ret, err>>

-----------------------------------------------------------------------------
(* The backend's task. A status query reads the backend's record of the   *)
(* task; the record changes until it is terminal and is final then.       *)

Terminal(a) == Get(a, "status", None) \in {"Ready", "Error"}

\* the task advances at the backend
backend_progress ==
    /\ backend # NoValue
    /\ ~ Terminal(backend)
    /\ backend' \in StatusAnswers \ {backend}
    /\ UNCHANGED <<pc, self, stack, server, now, waitLocals, soraLocals, http,
                   ret, err>>

\* the status query of wait_for_completion, answered from the backend's
\* record; the task is terminal by query MaxPolls + 1
get_task_status_of_backend ==
    /\ get_task_status
    /\ status' = backend
    /\ Len(answers) >= MaxPolls => Terminal(backend)

-----------------------------------------------------------------------------
(* The Flux endpoints (src/backend/api/endpoints/flux.py) *)

HTTPException(status_code, detail) ==
    [type |-> "HTTPException", msg |-> <<status_code, detail>>]

\* the keyword parameters the generation handlers pass for a request
generation_kwargs(request) ==
    IF request.model = "flux-pro-ultra"
    THEN [aspect_ratio |-> IF Truthy(request.aspect_ratio)
                           THEN request.aspect_ratio ELSE "16:9",
          prompt_upsampling |-> request.prompt_upsampling,
          seed |-> request.seed,
          safety_tolerance |-> request.safety_tolerance,
          output_format |-> request.output_format,
          raw |-> request.raw,
          image_prompt |-> request.image_prompt,
          image_prompt_strength |-> request.image_prompt_strength,
          webhook_url |-> request.webhook_url,
          webhook_secret |-> request.webhook_secret]
    ELSE [width |-> request.width,
          height |-> request.height,
          prompt_upsampling |-> request.prompt_upsampling,
          seed |-> request.seed,
          safety_tolerance |-> request.safety_tolerance,
          output_format |-> request.output_format,
          webhook_url |-> request.webhook_url,
          webhook_secret |-> request.webhook_secret]

\* the detail with which a handler's except wraps an exception
failed_detail(fn) ==
    IF fn = "edit_flux_image" THEN "Flux editing failed: "
    ELSE "Flux generation failed: "

\* if not flux_client: raise HTTPException(status_code=503, ...)
flux_unavailable ==
    /\ pc \in {"generate_flux_image", "generate_flux_image_async",
              "get_flux_task_status", "edit_flux_image"}
    /\ server.flux_client = None
    /\ err' = HTTPException(503, "Flux service is currently unavailable.")
    /\ pc' = "raised"
    /\ UNCHANGED <<self, hostVars, now, waitLocals, soraLocals, http, ret>>

\* POST /flux/generate: the parameters are prepared and
\* flux_client.generate_and_wait(prompt, model, **kwargs) is called
generate_flux_image ==
    /\ pc = "generate_flux_image"
    /\ server.flux_client # None
    /\ args' = [prompt |-> server.request.prompt,
                model |-> server.request.model,
                kwargs |-> generation_kwargs(server.request)]
    /\ stack' = Append(stack, Frame("generate_flux_image", "generate_and_wait"))
    /\ pc' = "generate_and_wait"
    /\ UNCHANGED <<self, backend, server, now, waitLocals, heap, response,
                   response2, http, ret, err>>

\* image_url = result.get("result", {}).get("sample")
image_url(result) ==
    LET r == Get(result, "result", [k \in {} |-> None])
    IN  Get(r, "sample", None)

\* the result is processed: a status other than "Ready" or a missing image
\* URL raises HTTPException(500), which the handler's except turns into
\* another one; otherwise the image is to be downloaded
generate_flux_image_result ==
    /\ ReturnedTo("generate_flux_image", "generate_and_wait")
    /\ IF Get(ret, "status", None) # "Ready"
       THEN /\ err' = HTTPException(500,
                         <<"Flux generation failed: ",
                           <<500, <<"Flux generation failed: ",
                                    Get(ret, "status", "Unknown error")>>>>>>)
            /\ pc' = "raised"
            /\ stack' = Pop
       ELSE IF ~ Truthy(image_url(ret))
       THEN /\ err' = HTTPException(500,
                         <<"Flux generation failed: ",
                           <<500, "No image URL in Flux response">>>>)
            /\ pc' = "raised"
            /\ stack' = Pop
       ELSE /\ pc' = "download_image"
            /\ UNCHANGED <<stack, err>>
    /\ UNCHANGED <<self, backend, server, now, waitLocals, soraLocals, http,
                   ret>>

\* FluxClient.download_image: requests.get(image_url)
download_image_request(image) ==
    [method |-> "GET", url |-> image, headers |-> [k \in {} |-> None]]

\* the download answers 2xx: the handler returns the response with the image
download_image ==
    /\ pc = "download_image"
    /\ http' = Append(http, download_image_request(image_url(ret)))
    /\ ret' = [created |-> Get(ret, "created_at", "0"),
               data |-> <<[b64_json |-> <<"b64encode", "image bytes">>,
                           url |-> image_url(ret),
                           revised_prompt |-> args.prompt]>>]
    /\ pc' = "returned"
    /\ stack' = Pop
    /\ UNCHANGED <<self, backend, server, now, waitLocals, soraLocals, err>>

\* the download answers non-2xx: response.raise_for_status() raises, and
\* the handler's except raises HTTPException(500)
download_image_raises ==
    /\ pc = "download_image"
    /\ http' = Append(http, download_image_request(image_url(ret)))
    /\ \E code \in {403, 404} :
          err' = HTTPException(500, <<failed_detail(Top.fn), <<code>>>>)
    /\ ret' = NoValue
    /\ pc' = "raised"
    /\ stack' = Pop
    /\ UNCHANGED <<self, backend, server, now, waitLocals, soraLocals>>

\* except Exception as e: raise HTTPException(500, "Flux generation failed: ...")
generate_flux_image_except ==
    /\ RaisedInto("generate_flux_image")
    /\ err' = HTTPException(500, <<"Flux generation failed: ", str_e(err)>>)
    /\ stack' = Pop
    /\ UNCHANGED <<pc, self, backend, server, now, waitLocals, soraLocals,
                   http, ret>>

\* POST /flux/generate/async: the parameters are prepared and
\* flux_client.generate_image(prompt, model, **kwargs) is called
generate_flux_image_async ==
    /\ pc = "generate_flux_image_async"
    /\ server.flux_client # None
    /\ args' = [prompt |-> server.request.prompt,
                model |-> server.request.model,
                kwargs |-> generation_kwargs(server.request)]
    /\ stack' = Append(stack,
                       Frame("generate_flux_image_async", "generate_image"))
    /\ pc' = "generate_image"
    /\ UNCHANGED <<self, backend, server, now, waitLocals, heap, response,
                   response2, http, ret, err>>

\* return {"task_id": result.get("id"), "status": "started", ...}
generate_flux_image_async_return ==
    /\ ReturnedTo("generate_flux_image_async", "generate_image")
    /\ ret' = [task_id |-> Get(ret, "id", None),
               status |-> "started",
               message |-> "Generation started successfully"]
    /\ stack' = Pop
    /\ UNCHANGED <<pc, self, backend, server, now, waitLocals, soraLocals,
                   http, err>>

\* except Exception as e: raise HTTPException(500, "Failed to start ...")
generate_flux_image_async_except ==
    /\ RaisedInto("generate_flux_image_async")
    /\ err' = HTTPException(500, <<"Failed to start generation: ", str_e(err)>>)
    /\ stack' = Pop
    /\ UNCHANGED <<pc, self, backend, server, now, waitLocals, soraLocals,
                   http, ret>>

-----------------------------------------------------------------------------
(* POST /flux/edit (src/backend/api/endpoints/flux.py) *)

\* the keyword parameters the edit handler passes for a request
edit_kwargs(request) ==
    [width |-> request.width,
     height |-> request.height,
     prompt_upsampling |-> request.prompt_upsampling,
     seed |-> request.seed,
     safety_tolerance |-> request.safety_tolerance,
     output_format |-> request.output_format,
     image_prompt |-> request.image_prompt,
     image_prompt_strength |-> request.image_prompt_strength,
     webhook_url |-> request.webhook_url,
     webhook_secret |-> request.webhook_secret]

\* the detail of the validation failure of an edit request, None without one
edit_validation_detail(request) ==
    IF request.model # "flux-kontext"
    THEN "Image editing requires flux-kontext model"
    ELSE IF ~ Truthy(request.image_prompt)
    THEN "image_prompt is required for Flux Kontext editing"
    ELSE None

\* a variant of the validation that asks for the model only
edit_flux_image_without_image_check ==
    /\ pc = "edit_flux_image"
    /\ server.flux_client # None
    /\ server.request.model = "flux-kontext"
    /\ args' = [prompt |-> server.request.prompt,
                model |-> server.request.model,
                kwargs |-> edit_kwargs(server.request)]
    /\ stack' = Append(stack, Frame("edit_flux_image", "generate_and_wait"))
    /\ pc' = "generate_and_wait"
    /\ UNCHANGED <<self, backend, server, now, waitLocals, heap, response,
                   response2, http, ret, err>>

\* the request passes the validation: the parameters are prepared and
\* flux_client.generate_and_wait(prompt, model, **kwargs) is called
edit_flux_image ==
    /\ pc = "edit_flux_image"
    /\ server.flux_client # None
    /\ edit_validation_detail(server.request) = None
    /\ args' = [prompt |-> server.request.prompt,
                model |-> server.request.model,
                kwargs |-> edit_kwargs(server.request)]
    /\ stack' = Append(stack, Frame("edit_flux_image", "generate_and_wait"))
    /\ pc' = "generate_and_wait"
    /\ UNCHANGED <<self, backend, server, now, waitLocals, heap, response,
                   response2, http, ret, err>>

\* the request fails the validation: raise HTTPException(status_code=400)
\* inside the try, which the handler's except Exception catches and turns
\* into HTTPException(status_code=500)
edit_flux_image_invalid ==
    /\ pc = "edit_flux_image"
    /\ server.flux_client # None
    /\ edit_validation_detail(server.request) # None
    /\ err' = HTTPException(500,
                 <<"Flux editing failed: ",
                   <<400, edit_validation_detail(server.request)>>>>)
    /\ pc' = "raised"
    /\ UNCHANGED <<self, hostVars, now, waitLocals, soraLocals, http, ret>>

\* the result is processed as in generate_flux_image
edit_flux_image_result ==
    /\ ReturnedTo("edit_flux_image", "generate_and_wait")
    /\ IF Get(ret, "status", None) # "Ready"
       THEN /\ err' = HTTPException(500,
                         <<"Flux editing failed: ",
                           <<500, <<"Flux editing failed: ",
                                    Get(ret, "status", "Unknown error")>>>>>>)
            /\ pc' = "raised"
            /\ stack' = Pop
       ELSE IF ~ Truthy(image_url(ret))
       THEN /\ err' = HTTPException(500,
                         <<"Flux editing failed: ",
                           <<500, "No image URL in Flux response">>>>)
            /\ pc' = "raised"
            /\ stack' = Pop
       ELSE /\ pc' = "download_image"
            /\ UNCHANGED <<stack, err>>
    /\ UNCHANGED <<self, backend, server, now, waitLocals, soraLocals, http,
                   ret>>

\* except Exception as e: raise HTTPException(500, "Flux editing failed: ...")
edit_flux_image_except ==
    /\ RaisedInto("edit_flux_image")
    /\ err' = HTTPException(500, <<"Flux editing failed: ", str_e(err)>>)
    /\ stack' = Pop
    /\ UNCHANGED <<pc, self, backend, server, now, waitLocals, soraLocals,
                   http, ret>>

-----------------------------------------------------------------------------
(* Sora.create_video_generation_job *)

create_video_generation_job_request ==
    [method |-> "POST", url |-> url,
     json |-> [model |-> self.deployment_name,
               prompt |-> args.prompt,
               n_seconds |-> args.n_seconds,
               height |-> args.height,
               width |-> args.width,
               n_variants |-> args.n_variants],
     headers |-> self.headers]

\* the post answers 2xx: return response.json()
create_video_generation_job ==
    /\ pc = "create_video_generation_job"
    /\ http' = Append(http, create_video_generation_job_request)
    /\ \E r \in SubmitResponses(Len(http) + 1) :
          /\ ok(r)
          /\ ret' = r.body
    /\ pc' = "returned"
    /\ UNCHANGED <<self, hostVars, now, waitLocals, soraLocals, err>>

\* the post answers non-2xx: response.raise_for_status() raises
create_video_generation_job_raises ==
    /\ pc = "create_video_generation_job"
    /\ http' = Append(http, create_video_generation_job_request)
    /\ \E r \in SubmitResponses(Len(http) + 1) :
          /\ ~ ok(r)
          /\ err' = HTTPError(r)
    /\ pc' = "raised"
    /\ UNCHANGED <<self, hostVars, now, waitLocals, soraLocals, ret>>

-----------------------------------------------------------------------------
(* One invocation of the coordinator: a call of generate_and_wait, a      *)
(* request to POST /flux/generate or to POST /flux/generate/async, or a   *)
(* call of Sora.create_video_generation_job                               *)

\* the values of max_wait_time a caller passes
WaitTimes == {0, 1, 2 * DefaultPollInterval + 1}

\* the bags of a direct call: image_prompt and max_wait_time absent or given
CallBags ==
    { Merge(b, w) :
        b \in Bags({"image_prompt"}, [image_prompt |-> {"aW1hZ2U="}]),
        w \in {[k \in {} |-> None]}
                 \cup {[max_wait_time |-> t] : t \in WaitTimes} }

RequestFields ==
    {"width", "height", "aspect_ratio", "prompt_upsampling", "seed",
     "safety_tolerance", "output_format", "raw", "image_prompt",
     "image_prompt_strength", "webhook_url", "webhook_secret"}

\* the requests to the generation endpoints: every field unset (None) but
\* those of a bag over aspect_ratio and image_prompt
GenerationRequests ==
    { [k \in RequestFields \cup {"prompt", "model"} |->
          IF k = "prompt" THEN "a cat"
          ELSE IF k = "model" THEN m
          ELSE Get(b, k, None)] :
        m \in Models,
        b \in Bags({"aspect_ratio", "image_prompt"},
                   [aspect_ratio |-> {"1:1"}, image_prompt |-> {"aW1hZ2U="}]) }

InitCoordinator ==
    /\ \/ /\ pc = "generate_and_wait"
          /\ self = FluxClient("bfl-key")
          /\ server = NoValue
          /\ args \in [prompt : {"a cat"}, model : Models, kwargs : CallBags]
       \/ /\ pc \in {"generate_flux_image", "generate_flux_image_async"}
          /\ self = FluxClient("bfl-key")
          /\ \E client \in {"flux_client", None} :
                server \in [flux_client : {client}, request : GenerationRequests]
          /\ args = NoValue
       \/ /\ pc = "create_video_generation_job"
          /\ self = Sora("res", "sora", "azure-key", "preview")
          /\ server = NoValue
          /\ args \in [prompt : {"a cat"}, n_seconds : {5}, height : {480},
                       width : {480, 854}, n_variants : {1}]
    /\ stack = <<>>
    /\ backend = [status |-> "Pending"]
    /\ heap = <<>>
    /\ response = NoValue
    /\ response2 = NoValue
    /\ now = 0
    /\ start_time = 0
    /\ max_wait_time = 0
    /\ poll_interval = 1
    /\ status = NoValue
    /\ answers = <<>>
    /\ sleeps = <<>>
    /\ http = <<>>
    /\ ret = NoValue
    /\ err = NoError

NextCoordinator ==
    \/ generate_and_wait
    \/ generate_and_wait_no_task_id
    \/ generate_and_wait_wait
    \/ generate_and_wait_return
    \/ generate_and_wait_raises
    \/ generate_image_unsupported_model
    \/ generate_image
    \/ generate_image_raises
    \/ wait_for_completion
    \/ while_enter
    \/ while_exit
    \/ get_task_status_of_backend
    \/ get_task_status_raises
    \/ return_ready
    \/ raise_error
    \/ sleep
    \/ backend_progress
    \/ flux_unavailable
    \/ generate_flux_image
    \/ generate_flux_image_result
    \/ download_image
    \/ download_image_raises
    \/ generate_flux_image_except
    \/ generate_flux_image_async
    \/ generate_flux_image_async_return
    \/ generate_flux_image_async_except
    \/ create_video_generation_job
    \/ create_video_generation_job_raises

SpecCoordinator == InitCoordinator /\ [][NextCoordinator]_vars

-----------------------------------------------------------------------------
(* Status queries of a caller: FluxClient.get_task_status called directly *)
(* and through GET /flux/task/{task_id}, before or after a wait.          *)

\* the caller's next call: get_task_status(task_id) or a request to the
\* status endpoint
next_status_call ==
    /\ pc = "main" \/ (pc \in {"returned", "raised"} /\ stack = <<>>)
    /\ Len(http) < MaxRequests
    /\ pc' \in {"get_task_status_call", "get_flux_task_status"}
    /\ ret' = NoValue
    /\ UNCHANGED <<self, hostVars, now, waitLocals, soraLocals, http, err>>

\* a variant that answers from the last status a wait has read
get_task_status_call_cached ==
    /\ pc = "get_task_status_call"
    /\ IF status # NoValue
       THEN /\ ret' = status
            /\ UNCHANGED <<http, answers>>
       ELSE /\ Len(answers) >= MaxPolls => Terminal(backend)
            /\ http' = Append(http, get_task_status_request(task_id))
            /\ answers' = Append(answers, backend)
            /\ ret' = backend
    /\ pc' = "returned"
    /\ UNCHANGED <<self, hostVars, now, start_time, max_wait_time,
                   poll_interval, status, sleeps, soraLocals, err>>

\* get_task_status(task_id), the backend answering 2xx:
\* return response.json()
get_task_status_call ==
    /\ pc = "get_task_status_call"
    /\ Len(answers) >= MaxPolls => Terminal(backend)
    /\ http' = Append(http, get_task_status_request(task_id))
    /\ answers' = Append(answers, backend)
    /\ ret' = backend
    /\ pc' = "returned"
    /\ UNCHANGED <<self, hostVars, now, start_time, max_wait_time,
                   poll_interval, status, sleeps, soraLocals, err>>

\* get_task_status(task_id), response.raise_for_status() raises
get_task_status_call_raises ==
    /\ pc = "get_task_status_call"
    /\ http' = Append(http, get_task_status_request(task_id))
    /\ err' = [type |-> "HTTPError", msg |-> <<"get_result">>]
    /\ pc' = "raised"
    /\ UNCHANGED <<self, hostVars, now, waitLocals, soraLocals, ret>>

\* GET /flux/task/{task_id}: status = flux_client.get_task_status(task_id)
get_flux_task_status ==
    /\ pc = "get_flux_task_status"
    /\ server.flux_client # None
    /\ stack' = Append(stack, Frame("get_flux_task_status", "get_task_status"))
    /\ pc' = "get_task_status_call"
    /\ UNCHANGED <<self, backend, server, now, waitLocals, soraLocals, http,
                   ret, err>>

\* return status
get_flux_task_status_return ==
    /\ ReturnedTo("get_flux_task_status", "get_task_status")
    /\ stack' = Pop
    /\ UNCHANGED <<pc, self, backend, server, now, waitLocals, soraLocals,
                   http, ret, err>>

\* except Exception as e: raise HTTPException(500, "Failed to get task ...")
get_flux_task_status_except ==
    /\ RaisedInto("get_flux_task_status")
    /\ err' = HTTPException(500, <<"Failed to get task status: ", str_e(err)>>)
    /\ stack' = Pop
    /\ UNCHANGED <<pc, self, backend, server, now, waitLocals, soraLocals,
                   http, ret>>

InitStatus ==
    /\ pc \in {"wait_for_completion", "main"}
    /\ self = FluxClient("bfl-key")
    /\ server \in [flux_client : {"flux_client", None}]
    /\ stack = <<>>
    /\ backend = [status |-> "Pending"]
    /\ args = NoValue
    /\ heap = <<>>
    /\ response = NoValue
    /\ response2 = NoValue
    /\ now = 0
    /\ start_time = 0
    /\ max_wait_time \in {0, MaxWaitTime}
    /\ poll_interval \in {1, MaxPollInterval}
    /\ status = NoValue
    /\ answers = <<>>
    /\ sleeps = <<>>
    /\ http = <<>>
    /\ ret = NoValue
    /\ err = NoError

NextStatus ==
    \/ wait_for_completion
    \/ while_enter
    \/ while_exit
    \/ get_task_status_of_backend
    \/ get_task_status_raises
    \/ return_ready
    \/ raise_error
    \/ sleep
    \/ backend_progress
    \/ next_status_call
    \/ get_task_status_call
    \/ get_task_status_call_raises
    \/ flux_unavailable
    \/ get_flux_task_status
    \/ get_flux_task_status_return
    \/ get_flux_task_status_except

SpecStatus == InitStatus /\ [][NextStatus]_vars

-----------------------------------------------------------------------------
(* The server: the Flux handlers are coroutines (async def) of one event  *)
(* loop. A handler holds the loop from its start to its return or raise:  *)
(* it has no await, and requests.post, requests.get and time.sleep block  *)
(* the loop's thread. Requests that have arrived wait in server.pending.  *)

\* the handler of a path, as the router decorators bind them
router ==
    [p \in {"/flux/generate", "/flux/generate/async", "/flux/task/{task_id}"} |->
        CASE p = "/flux/generate" -> "generate_flux_image"
          [] p = "/flux/generate/async" -> "generate_flux_image_async"
          [] OTHER -> "get_flux_task_status"]

\* the requests clients send to the Flux endpoints
ServerRequests ==
    { [path |-> p,
       body |-> [k \in RequestFields \cup {"prompt", "model"} |->
                    IF k = "prompt" THEN "a cat"
                    ELSE IF k = "model" THEN "flux-pro"
                    ELSE None]] : p \in DOMAIN router }

\* a client's request arrives at the server
request_arrives ==
    /\ Cardinality(server.arrived) < MaxClients
    /\ \E q \in ServerRequests \ server.arrived :
          server' = [server EXCEPT !.arrived = @ \cup {q},
                                   !.pending = @ \cup {q}]
    /\ UNCHANGED <<pc, self, stack, backend, now, waitLocals, soraLocals, http,
                   ret, err>>

\* the event loop is idle, or the handler it ran has returned or raised: it
\* starts the handler of a pending request
event_loop_run ==
    /\ pc = "event_loop" \/ (pc \in {"returned", "raised"} /\ stack = <<>>)
    /\ \E q \in server.pending :
          /\ server' = [server EXCEPT !.pending = @ \ {q}, !.request = q.body]
          /\ pc' = router[q.path]
    /\ backend' = [status |-> "Pending"]
    /\ args' = NoValue
    /\ start_time' = 0
    /\ max_wait_time' = 0
    /\ poll_interval' = 1
    /\ status' = NoValue
    /\ answers' = <<>>
    /\ sleeps' = <<>>
    /\ http' = <<>>
    /\ ret' = NoValue
    /\ err' = NoError
    /\ UNCHANGED <<self, stack, now, heap, response, response2>>

InitServer ==
    /\ pc = "event_loop"
    /\ self = FluxClient("bfl-key")
    /\ server = [flux_client |-> "flux_client", request |-> NoValue,
                 arrived |-> {}, pending |-> {}]
    /\ stack = <<>>
    /\ backend = [status |-> "Pending"]
    /\ args = NoValue
    /\ heap = <<>>
    /\ response = NoValue
    /\ response2 = NoValue
    /\ now = 0
    /\ start_time = 0
    /\ max_wait_time = 0
    /\ poll_interval = 1
    /\ status = NoValue
    /\ answers = <<>>
    /\ sleeps = <<>>
    /\ http = <<>>
    /\ ret = NoValue
    /\ err = NoError

\* (a handler waits with the default max_wait_time, which does not run out
\* within MaxPolls status queries: the loop is not left by while_exit)
NextServer ==
    \/ request_arrives
    \/ event_loop_run
    \/ generate_flux_image
    \/ generate_flux_image_result
    \/ download_image
    \/ download_image_raises
    \/ generate_flux_image_except
    \/ generate_flux_image_async
    \/ generate_flux_image_async_return
    \/ generate_flux_image_async_except
    \/ get_flux_task_status
    \/ get_flux_task_status_return
    \/ get_flux_task_status_except
    \/ get_task_status_call
    \/ get_task_status_call_raises
    \/ generate_and_wait
    \/ generate_and_wait_no_task_id
    \/ generate_and_wait_wait
    \/ generate_and_wait_return
    \/ generate_and_wait_raises
    \/ generate_image
    \/ generate_image_raises
    \/ wait_for_completion
    \/ while_enter
    \/ get_task_status_of_backend
    \/ get_task_status_raises
    \/ return_ready
    \/ raise_error
    \/ sleep
    \/ backend_progress

SpecServer == InitServer /\ [][NextServer]_vars

-----------------------------------------------------------------------------
(* A client object shared by two threads: one runs a call of the client   *)
(* step by step, the other makes JSON calls with the same object at any   *)
(* moment in between.                                                     *)

\* the client is a Sora client
IsSora == "deployment_name" \in DOMAIN self

\* another thread calls create_video_generation_job: its JSON POST
concurrent_create_video_generation_job ==
    /\ IsSora
    /\ Len(http) < MaxRequests
    /\ http' = Append(http, create_video_generation_job_request)
    /\ UNCHANGED <<pc, self, hostVars, now, waitLocals, soraLocals, ret, err>>

\* another thread calls get_task_status: its GET
concurrent_get_task_status ==
    /\ ~ IsSora
    /\ Len(http) < MaxRequests
    /\ http' = Append(http, get_task_status_request(task_id))
    /\ UNCHANGED <<pc, self, hostVars, now, waitLocals, soraLocals, ret, err>>

InitShared ==
    /\ \/ /\ pc = "create_video_generation_job_with_images"
          /\ self = Sora("res", "sora", "azure-key", "preview")
          /\ args \in [prompt : {"a cat"},
                       images : ListsUpTo(MaxImages, ImageContents),
                       image_filenames : ListsUpTo(MaxImages, Filenames),
                       n_seconds : {5},
                       height : {480},
                       width : {480},
                       n_variants : {1}]
       \/ /\ pc = "generate_image"
          /\ self = FluxClient("bfl-key")
          /\ args \in [prompt : {"a cat"}, model : Models, kwargs : CallBags]
    /\ stack = <<>>
    /\ backend = NoValue
    /\ server = NoValue
    /\ heap = <<>>
    /\ response = NoValue
    /\ response2 = NoValue
    /\ now = 0
    /\ start_time = 0
    /\ max_wait_time = 0
    /\ poll_interval = 1
    /\ status = NoValue
    /\ answers = <<>>
    /\ sleeps = <<>>
    /\ http = <<>>
    /\ ret = NoValue
    /\ err = NoError

NextShared ==
    \/ create_video_generation_job_with_images
    \/ create_video_generation_job_with_images_raises
    \/ return_response_json
    \/ retry_with_crop_bounds
    \/ retry_with_crop_bounds_raises
    \/ raise_for_status_response2
    \/ return_response2_json
    \/ generate_image_unsupported_model
    \/ generate_image
    \/ generate_image_raises
    \/ concurrent_create_video_generation_job
    \/ concurrent_get_task_status

SpecShared == InitShared /\ [][NextShared]_vars

-----------------------------------------------------------------------------
(* Properties of wait_for_completion *)

NonTerminal(a) == Get(a, "status", None) \notin {"Ready", "Error"}

Elapsed == now - start_time

Ended == pc \in {"returned", "raised"}

StatusQueries == { i \in 1..Len(http) : http[i].method = "GET" }

\* ceil(a / b) for a >= 0, b > 0
CeilDiv(a, b) == (a + b - 1) \div b

\* the first k-1 answers were non-terminal and the k-th, the last, is Ready
ReadyOnKth ==
    /\ Len(answers) >= 1
    /\ Get(answers[Len(answers)], "status", None) = "Ready"
    /\ \A i \in 1..(Len(answers) - 1) : NonTerminal(answers[i])

\* C1: when the first k-1 status answers are non-terminal and the k-th is
\* "Ready", the call returns the k-th payload, with no error, after exactly
\* k status queries and exactly k-1 sleeps of poll_interval each (so at
\* least (k-1)*poll_interval seconds have elapsed); the answer "Ready" is
\* followed by the return and by nothing else, so no query comes after it.
C1_ReadyOnKthQuery ==
    ReadyOnKth =>
        LET k == Len(answers) IN
        /\ pc \in {"if_status", "returned"}
        /\ pc = "if_status" =>
              /\ ENABLED return_ready
              /\ ~ ENABLED sleep
              /\ ~ ENABLED raise_error
        /\ pc = "returned" => ret = answers[k]
        /\ err = NoError
        /\ Len(http) = k
        /\ Cardinality(StatusQueries) = k
        /\ Len(sleeps) = k - 1
        /\ \A i \in 1..Len(sleeps) : sleeps[i] = poll_interval
        /\ Elapsed >= (k - 1) * poll_interval

\* the call has returned the answer of its 3rd query, after two sleeps
C1_Witness ==
    /\ pc = "returned"
    /\ Len(answers) = 3
    /\ ret = answers[3]
    /\ Len(sleeps) = 2

\* C2: whatever the backend answers, the number of status queries of a call
\* is at most ceil(max_wait_time / poll_interval) + 1.
C2_QueryBound ==
    Cardinality(StatusQueries) <= CeilDiv(max_wait_time, poll_interval) + 1

\* a call that polled until the timeout, with ceil(max_wait_time /
\* poll_interval) >= 2 queries
C2_Witness ==
    /\ pc = "raised"
    /\ err.type = "TimeoutError"
    /\ Cardinality(StatusQueries) = CeilDiv(max_wait_time, poll_interval)
    /\ Cardinality(StatusQueries) >= 2

\* C3: with 0 <= max_wait_time < poll_interval and a backend whose first
\* status answer is non-terminal, the call ends in the timeout error after
\* exactly one status query.
C3_OneQueryBelowPollInterval ==
    ( /\ Ended
      /\ max_wait_time < poll_interval
      /\ err.type # "HTTPError"
      /\ (answers = <<>> \/ NonTerminal(answers[1])) )
    => /\ err.type = "TimeoutError"
       /\ Cardinality(StatusQueries) = 1

\* C4: once a status answer is "Error", it is the last answer of the call:
\* the call raises at once an exception whose message carries the error
\* detail of that answer, returns nothing, and sends no request and sleeps
\* no more after it.
C4_ErrorIsDecisive ==
    (\E i \in 1..Len(answers) : Get(answers[i], "status", None) = "Error") =>
        LET k == Len(answers) IN
        /\ Get(answers[k], "status", None) = "Error"
        /\ pc \in {"if_status", "raised"}
        /\ pc = "if_status" =>
              /\ ENABLED raise_error
              /\ ~ ENABLED sleep
              /\ ~ ENABLED return_ready
        /\ pc = "raised" =>
              /\ err.type = "Exception"
              /\ err.msg = <<"Flux generation failed: ",
                             Get(answers[k], "error", "Unknown error")>>
        /\ ret = NoValue
        /\ Len(http) = k
        /\ \A i \in 1..Len(http) : http[i].method = "GET"
        /\ Len(sleeps) = k - 1

\* the call has raised on an "Error" answer with a detail, after polling
C4_Witness ==
    /\ pc = "raised"
    /\ err.type = "Exception"
    /\ Len(answers) >= 2
    /\ "error" \in DOMAIN answers[Len(answers)]
    /\ err.msg[2] = "unsafe content"

\* C5: every value the call returns has status "Ready"; and as long as no
\* answer is "Ready" or "Error" (another string, or no status at all) the
\* call returns nothing, keeps polling after each answer, and, unless a
\* status query itself fails, ends only in the timeout error, raised when
\* the elapsed time has reached max_wait_time.
C5_OnlyReadyIsReturned ==
    /\ pc = "returned" => Get(ret, "status", None) = "Ready"
    /\ (\A i \in 1..Len(answers) : NonTerminal(answers[i])) =>
          /\ pc # "returned"
          /\ ret = NoValue
          /\ pc = "if_status" =>
                /\ ENABLED sleep
                /\ ~ ENABLED return_ready
                /\ ~ ENABLED raise_error
          /\ pc = "raised" => err.type \in {"TimeoutError", "HTTPError"}
          /\ (pc = "raised" /\ err.type = "TimeoutError") =>
                Elapsed >= max_wait_time

\* the call timed out after answers that were "ready" and without status
C5_Witness ==
    /\ pc = "raised"
    /\ err.type = "TimeoutError"
    /\ \E i, j \in 1..Len(answers) :
          /\ Get(answers[i], "status", None) = "ready"
          /\ "status" \notin DOMAIN answers[j]

-----------------------------------------------------------------------------
(* Properties of create_video_generation_job_with_images *)

\* attempt n of the call has been answered by the backend
Answered1 == response # NoValue

Answered2 == response2 # NoValue

\* The JSON text of one descriptor without its closing brace, written out
DescriptorText(filename) ==
    <<"{", "\"", "frame_index", "\"", ": ", "0", ", ",
           "\"", "type", "\"", ": ", "\"", "image", "\"", ", ",
           "\"", "file_name", "\"", ": ", "\"", filename, "\"">>

\* The JSON text of the crop_bounds member with the full frame, written out
CropBoundsText ==
    <<", ", "\"", "crop_bounds", "\"", ": ", "{",
            "\"", "left_fraction", "\"", ": ", "0", ".", "0", ", ",
            "\"", "top_fraction", "\"", ": ", "0", ".", "0", ", ",
            "\"", "right_fraction", "\"", ": ", "1", ".", "0", ", ",
            "\"", "bottom_fraction", "\"", ": ", "1", ".", "0", "}">>

RECURSIVE DescriptorsText(_, _)
\* the descriptors of the filenames, in order, separated by ", "
DescriptorsText(filenames, crop) ==
    IF filenames = <<>> THEN <<>>
    ELSE DescriptorText(Head(filenames))
            \o (IF crop THEN CropBoundsText ELSE <<>>) \o <<"}">>
            \o (IF Len(filenames) > 1 THEN <<", ">> ELSE <<>>)
            \o DescriptorsText(Tail(filenames), crop)

InpaintItemsText(filenames, crop) ==
    <<"[">> \o DescriptorsText(filenames, crop) \o <<"]">>

\* C6: a call sends at most two submission requests, never a third; the
\* second is sent if and only if the first response is not successful,
\* whatever the status code and body of the rejection.
C6_AtMostTwoAttempts ==
    /\ Len(http) <= 2
    /\ \A i \in 1..Len(http) : http[i].method = "POST"
    /\ Len(http) = 2 => (Answered1 /\ ~ ok(response))
    /\ (Answered1 /\ ok(response)) => Len(http) = 1
    /\ (Answered1 /\ ~ ok(response)) =>
          IF pc = "if_response_ok"
          THEN ~ ENABLED return_response_json
          ELSE Len(http) = 2
    /\ pc \in {"returned", "raised"} => ~ ENABLED NextSora

\* the call retried after a rejection that has nothing to do with crop bounds
C6_Witness ==
    /\ pc \in {"returned", "raised"}
    /\ Len(http) = 2
    /\ response.status_code = 500

\* C7: attempt 1 sends descriptors without crop_bounds, attempt 2 the same
\* descriptors in the same order, each with crop_bounds 0.0/0.0/1.0/1.0, and
\* otherwise the same form fields; when attempt 1 is rejected and attempt 2
\* accepted the call returns the body of attempt 2's response, with its id.
C7_FallbackPayload ==
    /\ Len(http) >= 1 =>
          /\ http[1].data.inpaint_items
                = InpaintItemsText(args.image_filenames, FALSE)
          /\ "crop_bounds" \notin Range(http[1].data.inpaint_items)
    /\ Len(http) = 2 =>
          /\ http[2].data.inpaint_items
                = InpaintItemsText(args.image_filenames, TRUE)
          /\ DOMAIN http[2].data = DOMAIN http[1].data
          /\ \A k \in DOMAIN http[1].data \ {"inpaint_items"} :
                http[2].data[k] = http[1].data[k]
    /\ (Answered1 /\ ~ ok(response) /\ Answered2 /\ ok(response2)) =>
          /\ pc \in {"if_not_response2_ok", "returned"}
          /\ err = NoError
          /\ pc = "returned" =>
                /\ ret = response2.body
                /\ ret.id = <<"job-", 2>>

\* attempt 1 was rejected, attempt 2 accepted, with two images
C7_Witness ==
    /\ pc = "returned"
    /\ Len(http) = 2
    /\ Len(args.image_filenames) = 2
    /\ ret = response2.body

\* C8: when both attempts are rejected the call raises the HTTP error of
\* attempt 2 (its status code and body), not that of attempt 1, and returns
\* no job description.
C8_SecondErrorSurfaces ==
    (Answered1 /\ ~ ok(response) /\ Answered2 /\ ~ ok(response2)) =>
        /\ pc \in {"if_not_response2_ok", "raised"}
        /\ ret = NoValue
        /\ pc = "if_not_response2_ok" => ~ ENABLED return_response2_json
        /\ pc = "raised" =>
              /\ err.type = "HTTPError"
              /\ err.msg = <<response2.status_code, response2.body>>
              /\ err.msg[2].request = 2

\* both attempts were rejected, with different status codes
C8_Witness ==
    /\ pc = "raised"
    /\ Answered1 /\ Answered2
    /\ response.status_code = 400
    /\ response2.status_code = 500

\* C9: every attempt sends streams built for it, each at offset 0 and
\* uploaded in full: the attachments of a request are the pairs of
\* zip(images, image_filenames), no stream is sent by two requests, and
\* the two attempts upload the same content.
C9_FreshStreams ==
    /\ \A i \in 1..Len(http) :
          /\ Len(http[i].files)
                = Min(Len(args.images), Len(args.image_filenames))
          /\ \A j \in 1..Len(http[i].files) :
                /\ http[i].files[j].offset = 0
                /\ http[i].files[j].content = args.images[j]
                /\ http[i].files[j].filename = args.image_filenames[j]
    /\ \A i1, i2 \in 1..Len(http) :
          i1 # i2 =>
             \A j1 \in 1..Len(http[i1].files), j2 \in 1..Len(http[i2].files) :
                http[i1].files[j1].stream # http[i2].files[j2].stream
    /\ Len(http) = 2 =>
          [j \in 1..Len(http[1].files) |-> http[1].files[j].content]
             = [j \in 1..Len(http[2].files) |-> http[2].files[j].content]

\* the second attempt has uploaded two attachments
C9_Witness ==
    /\ Len(http) = 2
    /\ Len(http[2].files) = 2
    /\ http[2].files[2].content = <<2, 3>>
    /\ http[2].files[2].offset = 0

-----------------------------------------------------------------------------
(* Properties of generate_image *)

\* C10: for each of the three variants and every combination of present,
\* absent and None-valued parameters, the payload that generate_image posts
\* holds no key whose value is None.
C10_NoNullInPayload ==
    \A i \in 1..Len(http) :
        http[i].method = "POST" =>
            \A k \in DOMAIN http[i].json : http[i].json[k] # None

\* a payload was posted for flux-kontext with seed and output_format
\* passed as None and image_prompt left out
C10_Witness ==
    /\ Len(http) = 1
    /\ http[1].method = "POST"
    /\ args.model = "flux-kontext"
    /\ "seed" \in DOMAIN args.kwargs /\ args.kwargs["seed"] = None
    /\ "output_format" \in DOMAIN args.kwargs
    /\ args.kwargs["output_format"] = None
    /\ "image_prompt" \notin DOMAIN args.kwargs
    /\ DOMAIN http[1].json \cap {"seed", "output_format", "image_prompt"} = {}

\* C11: when the reference image image_prompt is omitted for flux-kontext,
\* generate_image fails with a missing-required-field error and sends no
\* submission request.
C11_MissingImagePromptFails ==
    (args.model = "flux-kontext" /\ "image_prompt" \notin DOMAIN args.kwargs)
    => /\ http = <<>>
       /\ pc # "returned"
       /\ pc = "raised" => err.type = "ValueError"

\* The defaults the backends apply, per variant, written out
BackendDefaults(model) ==
    CASE model = "flux-pro" ->
            [width |-> "1024", height |-> "1024",
             prompt_upsampling |-> "False", safety_tolerance |-> "2",
             output_format |-> "jpeg"]
      [] model = "flux-pro-ultra" ->
            [aspect_ratio |-> "16:9", prompt_upsampling |-> "False",
             safety_tolerance |-> "2", output_format |-> "jpeg",
             raw |-> "False", image_prompt_strength |-> "0.1"]
      [] model = "flux-kontext" ->
            [width |-> "1024", height |-> "1024",
             prompt_upsampling |-> "False", safety_tolerance |-> "2",
             output_format |-> "jpeg", image_prompt_strength |-> "0.1"]

\* The parameters without a default that a variant forwards
OptionalParameters(model) ==
    IF model = "flux-pro" THEN {"seed"} ELSE {"seed", "image_prompt"}

\* C13: in the payload posted for a variant, every parameter with a backend
\* default that is absent from the bag carries its default (width and
\* height 1024, aspect_ratio 16:9, safety_tolerance 2, output_format jpeg,
\* prompt_upsampling false, raw false, image_prompt_strength 0.1), and
\* every parameter of the variant supplied with a value carries that value.
C13_DefaultsApplied ==
    \A i \in 1..Len(http) :
        http[i].method = "POST" =>
            LET p == http[i].json
                defaults == BackendDefaults(args.model)
            IN  /\ \A k \in DOMAIN defaults :
                      k \notin DOMAIN args.kwargs =>
                          (k \in DOMAIN p /\ p[k] = defaults[k])
                /\ \A k \in DOMAIN defaults \cup OptionalParameters(args.model) :
                      (k \in DOMAIN args.kwargs /\ args.kwargs[k] # None) =>
                          (k \in DOMAIN p /\ p[k] = args.kwargs[k])

\* a payload was posted for flux-pro-ultra with only output_format supplied
C13_Witness ==
    /\ Len(http) = 1
    /\ http[1].method = "POST"
    /\ args.model = "flux-pro-ultra"
    /\ DOMAIN args.kwargs = {"output_format"}
    /\ http[1].json["output_format"] = "png"
    /\ http[1].json["aspect_ratio"] = "16:9"
    /\ http[1].json["raw"] = "False"

-----------------------------------------------------------------------------
(* Properties of generate_and_wait and of the Flux endpoints *)

\* the requests sent so far, by kind
Submissions == {i \in 1..Len(http) : http[i].method = "POST"}

StatusGets == {i \in 1..Len(http) :
                 http[i].method = "GET" /\ "params" \in DOMAIN http[i]}

Downloads == {i \in 1..Len(http) :
                http[i].method = "GET" /\ "params" \notin DOMAIN http[i]}

\* the invocation calls the Flux client with a model
FluxCall == "model" \in DOMAIN args

\* the exception is the one the Flux client raised: it has not reached an
\* endpoint handler's except
InClient == server = NoValue \/ stack # <<>>

\* C12: generate_image with a model other than flux-pro, flux-pro-ultra and
\* flux-kontext raises the unsupported-model ValueError and sends nothing:
\* a call of generate_and_wait (or of a handler) with such a model never
\* returns a result, sends no submission and no status query.
C12_UnsupportedModelSendsNothing ==
    (FluxCall /\ args.model \notin {"flux-pro", "flux-pro-ultra", "flux-kontext"})
    => /\ http = <<>>
       /\ pc # "returned"
       /\ answers = <<>>
       /\ (pc = "raised" /\ InClient)
            => err = [type |-> "ValueError",
                      msg |-> <<"Unsupported model: ", args.model>>]

C12_Witness ==
    /\ FluxCall
    /\ args.model = "dall-e-3"
    /\ server = NoValue
    /\ pc = "raised"
    /\ stack = <<>>
    /\ err.type = "ValueError"
    /\ http = <<>>

\* the invocation is over: nothing runs and no caller waits
Finished == pc \in {"returned", "raised"} /\ stack = <<>>

\* C14 as stated: every finished call of generate_image,
\* create_video_generation_job or generate_and_wait has sent exactly one
\* submission request.
C14_ExactlyOneSubmission ==
    (Finished /\ args # NoValue) => Cardinality(Submissions) = 1

\* C14, amended: a call never sends a second submission, whatever the answer
\* and however the wait ends; a finished call has sent exactly one, except
\* a Flux call with an unsupported model, which has sent none.
C14_OneSubmission ==
    /\ Cardinality(Submissions) <= 1
    /\ (Finished /\ args # NoValue)
         => Cardinality(Submissions) =
               IF FluxCall /\ args.model \notin DOMAIN model_endpoints
               THEN 0 ELSE 1

C14_Witness ==
    /\ Finished
    /\ FluxCall
    /\ pc = "raised"
    /\ err.type = "TimeoutError"
    /\ Len(answers) >= 2
    /\ Cardinality(Submissions) = 1

\* a submission response without a task identifier: id missing, null or empty
NoTaskId(result) ==
    \/ "id" \notin DOMAIN result
    \/ result.id = None
    \/ result.id = ""

NoTaskIdError ==
    [type |-> "Exception", msg |-> <<"No task ID returned from Flux API">>]

\* C15: when generate_image has returned to generate_and_wait a response
\* without a task identifier, the next step of the call raises the no-task-id
\* error and sends nothing, and once that error is raised no request follows:
\* no status query is issued for the call.
C15_NoTaskIdFails ==
    [][ /\ (ReturnedTo("generate_and_wait", "generate_image") /\ NoTaskId(ret))
           => \/ pc' = "raised" /\ err' = NoTaskIdError /\ http' = http
              \/ UNCHANGED <<pc, stack, ret, err, http>>
        /\ (pc = "raised" /\ err = NoTaskIdError)
           => http' = http /\ StatusGets = {} /\ pc' = "raised" ]_vars

C15_Witness ==
    /\ Finished
    /\ server = NoValue
    /\ pc = "raised"
    /\ err = NoTaskIdError
    /\ Cardinality(Submissions) = 1
    /\ StatusGets = {}

\* C16 as stated: the /flux/generate/async handler never answers with a
\* started generation whose task_id is null.
C16_AsyncNeverStartsWithoutTaskId ==
    (Finished /\ pc = "returned" /\ "task_id" \in DOMAIN ret)
    => ret.task_id # None

\* a status query has failed: it was sent and no answer to it was read
StatusQueryFailed == Cardinality(StatusGets) > Len(answers)

\* C18: an exception that has reached generate_and_wait leaves it as it is:
\* the next step keeps the exception, stays raised and sends nothing; and a
\* status query that fails ends the run there, with the query's own
\* HTTPError and the failed GET as the last request.
C18_ErrorsPropagateUnchanged ==
    [][ /\ RaisedInto("generate_and_wait")
           => /\ err' = err
              /\ pc' = "raised"
              /\ http' = http
              /\ stack' \in {stack, Pop}
        /\ StatusQueryFailed'
           => /\ pc' = "raised"
              /\ InClient' => err'.type = "HTTPError"
              /\ Len(http') \in StatusGets' ]_vars

C18_Witness ==
    /\ Finished
    /\ server = NoValue
    /\ pc = "raised"
    /\ err.type = "HTTPError"
    /\ StatusQueryFailed
    /\ Len(answers) >= 1

\* C19 as stated: the GET that downloads a result carries the credential
\* headers of the client.
C19_AuthenticatedDownload ==
    \A i \in Downloads :
        /\ DOMAIN self.headers \subseteq DOMAIN http[i].headers
        /\ \A h \in DOMAIN self.headers : http[i].headers[h] = self.headers[h]

-----------------------------------------------------------------------------
(* Properties of get_task_status *)

\* C20: a call of get_task_status sends its GET to the backend whatever
\* happened before (a timed-out wait included), changes nothing of the client
\* or of the backend's task, and returns the backend's record as it is; so
\* once an answer was 'Ready', every later answer is that same answer.
C20_PassThrough ==
    /\ [][ pc = "get_task_status_call"
             => \/ UNCHANGED <<pc, http, ret, answers>>
                \/ /\ http' = Append(http, get_task_status_request(task_id))
                   /\ UNCHANGED <<self, backend, start_time, max_wait_time,
                                  poll_interval, status, sleeps>>
                   /\ pc' \in {"returned", "raised"}
                   /\ pc' = "returned"
                        => ret' = backend /\ answers' = Append(answers, ret')
          ]_vars
    /\ [](\A i, j \in 1..Len(answers) :
             (i < j /\ Get(answers[i], "status", None) = "Ready")
             => answers[j] = answers[i])

C20_Witness ==
    /\ Finished
    /\ pc = "returned"
    /\ err.type = "TimeoutError"
    /\ Len(answers) >= 3
    /\ Get(answers[Len(answers) - 1], "status", None) = "Ready"
    /\ answers[Len(answers)] = answers[Len(answers) - 1]
    /\ ret = answers[Len(answers)]
    /\ Cardinality(StatusGets) = Len(answers)

-----------------------------------------------------------------------------
(* Properties of the server *)

\* the running handler is inside the poll loop of wait_for_completion
InPollLoop ==
    /\ pc \in {"while", "get_task_status", "if_status"}
    /\ stack # <<>>
    /\ Top = Frame("generate_and_wait", "wait_for_completion")

\* C17 as stated: while one request's handler is inside its poll loop, the
\* handler of another request that has arrived can start.
C17_PollLoopDoesNotBlockOthers ==
    (InPollLoop /\ server.pending # {}) => ENABLED event_loop_run

-----------------------------------------------------------------------------
(* Properties of generate_image: parameters passed as None *)

\* C30 as stated: in the payload posted for a variant, every parameter with
\* a backend default that is passed as None carries its default value.
C30_NullTakesDefault ==
    \A i \in 1..Len(http) :
        http[i].method = "POST" =>
            LET p == http[i].json
                defaults == BackendDefaults(args.model)
            IN  \A k \in DOMAIN defaults :
                    (k \in DOMAIN args.kwargs /\ args.kwargs[k] = None) =>
                        (k \in DOMAIN p /\ p[k] = defaults[k])

-----------------------------------------------------------------------------
(* Properties of the client configuration *)

\* the requests with a JSON body or none: those that are not multipart
JsonCalls == {i \in 1..Len(http) : "files" \notin DOMAIN http[i]}

MultipartCalls == {i \in 1..Len(http) : "files" \in DOMAIN http[i]}

\* C29: the client object stays as its constructor built it (headers, base
\* URL and key), whatever calls ran and however they ended; so every JSON
\* call, before, between or after the attempts of a multipart submission,
\* sends the client's headers with their Content-Type.
C29_ConfigReadOnly ==
    /\ self = IF IsSora THEN Sora("res", "sora", "azure-key", "preview")
                        ELSE FluxClient("bfl-key")
    /\ \A i \in JsonCalls :
          /\ http[i].headers = self.headers
          /\ "Content-Type" \in DOMAIN http[i].headers
          /\ IsSora => http[i].headers["Content-Type"] = "application/json"

\* a JSON call was made between the two attempts of a multipart submission
\* and another one after the second
C29_Witness ==
    /\ IsSora
    /\ pc \in {"returned", "raised"}
    /\ \E i, j, k, l \in 1..Len(http) :
          /\ i < j /\ j < k /\ k < l
          /\ {i, k} \subseteq MultipartCalls
          /\ {j, l} \subseteq JsonCalls
          /\ http[l].headers["Content-Type"] = "application/json"

-----------------------------------------------------------------------------
(* Properties of create_video_generation_job_with_images: descriptors and *)
(* attachments                                                            *)

\* the places of the file_name members in the JSON text of the descriptors
FileNameMembers(text) == {k \in 1..(Len(text) - 4) : text[k] = "file_name"}

\* C28 as stated: in each submission request the descriptors and the
\* attachments correspond one to one: as many descriptors as attached files,
\* and the file names the descriptors carry are those of the attached files.
C28_DescriptorsMatchAttachments ==
    \A i \in 1..Len(http) :
        "files" \in DOMAIN http[i] =>
            LET text == http[i].data.inpaint_items
                files == http[i].files
            IN  /\ Cardinality(FileNameMembers(text)) = Len(files)
                /\ {text[k + 4] : k \in FileNameMembers(text)}
                      = {files[j].filename : j \in 1..Len(files)}

-----------------------------------------------------------------------------
(* Termination of wait_for_completion *)

\* C27: with poll_interval > 0 and every status query answered or failed,
\* every call of wait_for_completion ends: it returns a 'Ready' result or
\* raises (backend error, failed query or timeout).
C27_Terminates == <>(pc \in {"returned", "raised"})

\* a call that ended by timeout after MaxWaitTime, having slept at least
\* twice on answers that were all non-terminal
C27_Witness ==
    /\ pc = "raised"
    /\ err.type = "TimeoutError"
    /\ max_wait_time = MaxWaitTime
    /\ poll_interval > 0
    /\ Len(sleeps) >= 2
    /\ \A i \in 1..Len(answers) : NonTerminal(answers[i])

-----------------------------------------------------------------------------
(* The image pipeline: POST /images/pipeline and                          *)
(* POST /images/generate-with-analysis (src/backend/api/endpoints/        *)
(* images.py), which call ImagePipelineService.process_pipeline. The      *)
(* service (backend/core/image_pipeline.py) is not part of the sources    *)
(* at hand: its stages follow the specification of the dispatcher.        *)
(* server.form is the request of the endpoint, server.pipeline the state  *)
(* of the call of process_pipeline. None is NoValue where a record or a   *)
(* list may stand; an absent list of uploads and an empty one are both    *)
(* <<>>, as both are false in "if source_images or image".                *)

\* ImagePipelineRequest.parse_raw(payload): the required prompt is there
ValidPayload(b) == "prompt" \in DOMAIN b

\* the request a valid payload is parsed to
parse_raw(b) ==
    [action |-> b.action,
     prompt |-> b.prompt,
     model |-> b.model,
     save_options |-> [enabled |-> b.save_options.enabled],
     analysis_options |-> [enabled |-> b.analysis_options.enabled]]

\* uploaded_images: the uploads of both form fields, source_images first
uploaded_images(form) == form.source_images \o form.image

\* the state of a call process_pipeline(pipeline_request,
\* azure_storage_service=..., source_images=...)
process_pipeline_call(pipeline_request, storage_service, source_images) ==
    [request |-> pipeline_request,
     storage_service |-> storage_service,
     source_images |-> source_images,
     generation |-> NoValue,
     save |-> NoValue,
     analysis |-> NoValue]

\* except ValidationError as exc: raise HTTPException(status_code=422, ...)
process_image_pipeline_invalid ==
    /\ pc = "process_image_pipeline"
    /\ ~ ValidPayload(server.form.payload)
    /\ err' = HTTPException(422, <<"ValidationError", "prompt">>)
    /\ pc' = "raised"
    /\ UNCHANGED <<self, hostVars, now, waitLocals, soraLocals, http, ret>>

\* a variant of the handler that answers every payload as an invalid one
process_image_pipeline_rejects ==
    /\ pc = "process_image_pipeline"
    /\ ValidPayload(server.form.payload)
    /\ err' = HTTPException(422, <<"ValidationError", "prompt">>)
    /\ pc' = "raised"
    /\ UNCHANGED <<self, hostVars, now, waitLocals, soraLocals, http, ret>>

\* POST /images/pipeline: the payload is parsed, the storage service is
\* passed only if saving is enabled, and process_pipeline is called
process_image_pipeline ==
    /\ pc = "process_image_pipeline"
    /\ ValidPayload(server.form.payload)
    /\ LET pipeline_request == parse_raw(server.form.payload)
           storage_service == IF pipeline_request.save_options.enabled
                              THEN "azure_storage_service" ELSE None
       IN  server' = [server EXCEPT !.pipeline =
                         process_pipeline_call(pipeline_request,
                                               storage_service,
                                               uploaded_images(server.form))]
    /\ stack' = Append(stack, Frame("process_image_pipeline",
                                    "process_pipeline"))
    /\ pc' = "process_pipeline"
    /\ UNCHANGED <<self, backend, now, waitLocals, soraLocals, http, ret, err>>

\* return await pipeline_service.process_pipeline(...)
process_image_pipeline_return ==
    /\ ReturnedTo("process_image_pipeline", "process_pipeline")
    /\ stack' = Pop
    /\ UNCHANGED <<pc, self, backend, server, now, waitLocals, soraLocals,
                   http, ret, err>>

\* a variant of the handler that takes the saving option from the request
generate_image_with_analysis_save_optional ==
    /\ pc = "generate_image_with_analysis"
    /\ LET req == server.form.req
           pipeline_request ==
               [action |-> "generate",
                prompt |-> req.prompt,
                model |-> req.model,
                save_options |-> [enabled |-> req.save_all,
                                  save_all |-> req.save_all],
                analysis_options |-> [enabled |-> req.analyze]]
       IN  server' = [server EXCEPT !.pipeline =
                         process_pipeline_call(pipeline_request,
                                               "azure_storage_service", <<>>)]
    /\ stack' = Append(stack, Frame("generate_image_with_analysis",
                                    "process_pipeline"))
    /\ pc' = "process_pipeline"
    /\ UNCHANGED <<self, backend, now, waitLocals, soraLocals, http, ret, err>>

\* POST /images/generate-with-analysis: a pipeline request with action
\* GENERATE, saving enabled and analysis as the request asks; no source
\* images are passed
generate_image_with_analysis ==
    /\ pc = "generate_image_with_analysis"
    /\ LET req == server.form.req
           pipeline_request ==
               [action |-> "generate",
                prompt |-> req.prompt,
                model |-> req.model,
                save_options |-> [enabled |-> TRUE,
                                  save_all |-> req.save_all],
                analysis_options |-> [enabled |-> req.analyze]]
       IN  server' = [server EXCEPT !.pipeline =
                         process_pipeline_call(pipeline_request,
                                               "azure_storage_service", <<>>)]
    /\ stack' = Append(stack, Frame("generate_image_with_analysis",
                                    "process_pipeline"))
    /\ pc' = "process_pipeline"
    /\ UNCHANGED <<self, backend, now, waitLocals, soraLocals, http, ret, err>>

\* if not pipeline_response.save: raise HTTPException(status_code=500);
\* return pipeline_response.save
generate_image_with_analysis_return ==
    /\ ReturnedTo("generate_image_with_analysis", "process_pipeline")
    /\ IF ret.save = NoValue
       THEN /\ err' = HTTPException(500,
                         "Pipeline did not produce a save response")
            /\ ret' = NoValue
            /\ pc' = "raised"
       ELSE /\ ret' = ret.save
            /\ UNCHANGED <<pc, err>>
    /\ stack' = Pop
    /\ UNCHANGED <<self, backend, server, now, waitLocals, soraLocals, http>>


-----------------------------------------------------------------------------
(* ImagePipelineService.process_pipeline, after the specification of the  *)
(* dispatcher: Generation, then Save and Analysis if enabled and if       *)
(* Generation succeeded; every stage's error becomes a field of the       *)
(* response.                                                              *)

\* the failure of a stage, as the response records it
StageFailure(stage, message) ==
    [success |-> FALSE, stage |-> stage, message |-> message]

\* the request for a source image is met: an edit, and a request for the
\* image-edit model, need at least one
SourceImageGiven(p) ==
    (p.request.action = "edit" \/ p.request.model = "flux-kontext")
        => p.source_images # <<>>

\* the request the generation stage hands to the generation coordinator
generation_request(p) ==
    [k \in RequestFields \cup {"prompt", "model"} |->
        IF k = "prompt" THEN p.request.prompt
        ELSE IF k = "model" THEN p.request.model
        ELSE IF k = "image_prompt" /\ p.source_images # <<>>
        THEN p.source_images[1]
        ELSE None]

\* an edit without a source image fails the validation before any call
process_pipeline_invalid ==
    /\ pc = "process_pipeline"
    /\ ~ SourceImageGiven(server.pipeline)
    /\ server' = [server EXCEPT !.pipeline.generation =
                     StageFailure("generation",
                                  <<"ValidationError",
                                    "a source image is required">>)]
    /\ pc' = "process_pipeline_return"
    /\ UNCHANGED <<self, stack, backend, now, waitLocals, soraLocals, http,
                   ret, err>>

\* Generation, action generate: the generation coordinator is called
process_pipeline_generate ==
    /\ pc = "process_pipeline"
    /\ SourceImageGiven(server.pipeline)
    /\ server.pipeline.request.action = "generate"
    /\ server' = [server EXCEPT !.request = generation_request(server.pipeline)]
    /\ stack' = Append(stack, Frame("process_pipeline", "generation"))
    /\ pc' = "generate_flux_image"
    /\ UNCHANGED <<self, backend, now, waitLocals, soraLocals, http, ret, err>>

\* Generation, action edit: the edit call of the coordinator
process_pipeline_edit ==
    /\ pc = "process_pipeline"
    /\ SourceImageGiven(server.pipeline)
    /\ server.pipeline.request.action = "edit"
    /\ server' = [server EXCEPT !.request = generation_request(server.pipeline)]
    /\ stack' = Append(stack, Frame("process_pipeline", "generation"))
    /\ pc' = "edit_flux_image"
    /\ UNCHANGED <<self, backend, now, waitLocals, soraLocals, http, ret, err>>

\* Generation succeeded: its result is recorded, Save is next
process_pipeline_generation_succeeded ==
    /\ ReturnedTo("process_pipeline", "generation")
    /\ server' = [server EXCEPT !.pipeline.generation =
                     [success |-> TRUE, result |-> ret]]
    /\ ret' = NoValue
    /\ stack' = Pop
    /\ pc' = "process_pipeline_save"
    /\ UNCHANGED <<self, backend, now, waitLocals, soraLocals, http, err>>

\* Generation failed: the error is recorded with its message, and no
\* further stage runs
process_pipeline_generation_failed ==
    /\ RaisedInto("process_pipeline")
    /\ server' = [server EXCEPT !.pipeline.generation =
                     StageFailure("generation", str_e(err))]
    /\ err' = NoError
    /\ stack' = Pop
    /\ pc' = "process_pipeline_return"
    /\ UNCHANGED <<self, backend, now, waitLocals, soraLocals, http, ret>>

\* the upload of the artifact to the storage collaborator
upload_request(p) ==
    [to |-> p.storage_service, method |-> "PUT",
     url |-> image_url(backend)]

\* Save is not enabled
process_pipeline_save_skipped ==
    /\ pc = "process_pipeline_save"
    /\ ~ server.pipeline.request.save_options.enabled
    /\ pc' = "process_pipeline_analysis"
    /\ UNCHANGED <<self, hostVars, now, waitLocals, soraLocals, http, ret, err>>

\* Save: the artifact is persisted through the storage collaborator
process_pipeline_save ==
    /\ pc = "process_pipeline_save"
    /\ server.pipeline.request.save_options.enabled
    /\ http' = Append(http, upload_request(server.pipeline))
    /\ server' = [server EXCEPT !.pipeline.save =
                     [success |-> TRUE, url |-> "https://storage/a.jpg"]]
    /\ pc' = "process_pipeline_analysis"
    /\ UNCHANGED <<self, stack, backend, now, waitLocals, soraLocals, ret, err>>

\* Save fails: the failure is recorded in the save result
process_pipeline_save_failed ==
    /\ pc = "process_pipeline_save"
    /\ server.pipeline.request.save_options.enabled
    /\ http' = Append(http, upload_request(server.pipeline))
    /\ server' = [server EXCEPT !.pipeline.save =
                     StageFailure("save", <<"SaveFailed">>)]
    /\ pc' = "process_pipeline_analysis"
    /\ UNCHANGED <<self, stack, backend, now, waitLocals, soraLocals, ret, err>>

\* the call of the vision-analysis collaborator
analyze_request ==
    [to |-> "vision", method |-> "POST", url |-> image_url(backend)]

\* Analysis is not enabled
process_pipeline_analysis_skipped ==
    /\ pc = "process_pipeline_analysis"
    /\ ~ server.pipeline.request.analysis_options.enabled
    /\ pc' = "process_pipeline_return"
    /\ UNCHANGED <<self, hostVars, now, waitLocals, soraLocals, http, ret, err>>

\* Analysis: the image is sent to the vision-analysis collaborator
process_pipeline_analysis ==
    /\ pc = "process_pipeline_analysis"
    /\ server.pipeline.request.analysis_options.enabled
    /\ http' = Append(http, analyze_request)
    /\ server' = [server EXCEPT !.pipeline.analysis =
                     [success |-> TRUE, description |-> "a cat"]]
    /\ pc' = "process_pipeline_return"
    /\ UNCHANGED <<self, stack, backend, now, waitLocals, soraLocals, ret, err>>

\* Analysis fails: the failure is recorded in the analysis result
process_pipeline_analysis_failed ==
    /\ pc = "process_pipeline_analysis"
    /\ server.pipeline.request.analysis_options.enabled
    /\ http' = Append(http, analyze_request)
    /\ server' = [server EXCEPT !.pipeline.analysis =
                     StageFailure("analysis", <<"AnalysisFailed">>)]
    /\ pc' = "process_pipeline_return"
    /\ UNCHANGED <<self, stack, backend, now, waitLocals, soraLocals, ret, err>>

\* the save result of the response: present if and only if saving is
\* enabled, a failure if the stage did not run
save_result(p) ==
    IF ~ p.request.save_options.enabled THEN NoValue
    ELSE IF p.save # NoValue THEN p.save
    ELSE StageFailure("save", <<"generation failed">>)

\* the aggregate response is returned
process_pipeline_return ==
    /\ pc = "process_pipeline_return"
    /\ ret' = [generation |-> server.pipeline.generation,
               save |-> save_result(server.pipeline),
               analysis |-> server.pipeline.analysis]
    /\ pc' = "returned"
    /\ UNCHANGED <<self, hostVars, now, waitLocals, soraLocals, http, err>>

\* the source images of a request to the pipeline, by form field
Uploads ==
    { [source_images |-> <<>>, image |-> <<>>],
      [source_images |-> <<"aW1hZ2U=">>, image |-> <<"bGVnYWN5">>] }

\* the payloads of requests to the pipeline: one without a prompt, and
\* every choice of action, model (the image-edit model and an unsupported
\* one) and options
Payloads ==
    { [action |-> "generate", model |-> "flux-kontext",
       save_options |-> [enabled |-> FALSE],
       analysis_options |-> [enabled |-> FALSE]] }
    \cup
    [action : {"generate", "edit"}, prompt : {"a cat"}, model : {"flux-kontext", "dall-e-3"},
     save_options : [enabled : BOOLEAN],
     analysis_options : [enabled : BOOLEAN]]

\* the requests to /flux/edit
EditRequests ==
    { [k \in RequestFields \cup {"prompt", "model"} |->
          IF k = "prompt" THEN "a cat"
          ELSE IF k = "model" THEN m
          ELSE IF k = "image_prompt" THEN i
          ELSE None] :
        m \in {"flux-kontext", "flux-pro"}, i \in {None, "aW1hZ2U="} }

InitPipeline ==
    /\ \/ /\ pc = "process_image_pipeline"
          /\ \E p \in Payloads, u \in Uploads :
                server \in [flux_client : {"flux_client", None},
                            request : {NoValue},
                            form : {[payload |-> p,
                                     source_images |-> u.source_images,
                                     image |-> u.image]},
                            pipeline : {NoValue}]
       \/ /\ pc = "generate_image_with_analysis"
          /\ server \in [flux_client : {"flux_client"},
                         request : {NoValue},
                         form : [req : [prompt : {"a cat"},
                                        model : {"flux-pro", "dall-e-3"},
                                        analyze : BOOLEAN,
                                        save_all : BOOLEAN]],
                         pipeline : {NoValue}]
       \/ /\ pc = "edit_flux_image"
          /\ server \in [flux_client : {"flux_client", None},
                         request : EditRequests,
                         form : {NoValue},
                         pipeline : {NoValue}]
    /\ self = FluxClient("bfl-key")
    /\ args = NoValue
    /\ stack = <<>>
    /\ backend = [status |-> "Pending"]
    /\ heap = <<>>
    /\ response = NoValue
    /\ response2 = NoValue
    /\ now = 0
    /\ start_time = 0
    /\ max_wait_time = 0
    /\ poll_interval = 1
    /\ status = NoValue
    /\ answers = <<>>
    /\ sleeps = <<>>
    /\ http = <<>>
    /\ ret = NoValue
    /\ err = NoError

\* the handlers wait the default 300 seconds, within which the task is
\* terminal: the loop is never left by a timeout
NextPipeline ==
    \/ process_image_pipeline_invalid
    \/ process_image_pipeline
    \/ process_image_pipeline_return
    \/ generate_image_with_analysis
    \/ generate_image_with_analysis_return
    \/ process_pipeline_invalid
    \/ process_pipeline_generate
    \/ process_pipeline_edit
    \/ process_pipeline_generation_succeeded
    \/ process_pipeline_generation_failed
    \/ process_pipeline_save_skipped
    \/ process_pipeline_save
    \/ process_pipeline_save_failed
    \/ process_pipeline_analysis_skipped
    \/ process_pipeline_analysis
    \/ process_pipeline_analysis_failed
    \/ process_pipeline_return
    \/ flux_unavailable
    \/ generate_flux_image
    \/ generate_flux_image_result
    \/ generate_flux_image_except
    \/ edit_flux_image
    \/ edit_flux_image_invalid
    \/ edit_flux_image_result
    \/ edit_flux_image_except
    \/ download_image
    \/ download_image_raises
    \/ generate_and_wait
    \/ generate_and_wait_no_task_id
    \/ generate_and_wait_wait
    \/ generate_and_wait_return
    \/ generate_and_wait_raises
    \/ generate_image_unsupported_model
    \/ generate_image
    \/ generate_image_raises
    \/ wait_for_completion
    \/ while_enter
    \/ get_task_status_of_backend
    \/ get_task_status_raises
    \/ return_ready
    \/ raise_error
    \/ sleep
    \/ backend_progress

SpecPipeline == InitPipeline /\ [][NextPipeline]_vars


-----------------------------------------------------------------------------
(* Properties of the pipeline and of the edit endpoint *)

\* the request came to an endpoint of the pipeline
PipelineEndpoint == server.form # NoValue

\* the request came to POST /images/pipeline
PipelineForm == PipelineEndpoint /\ "payload" \in DOMAIN server.form

\* the request came to POST /flux/edit
EditEndpoint == server.form = NoValue

\* process_pipeline has been called
InPipeline == server.pipeline # NoValue

\* the generation stage of the invocation has failed
GenerationFailed ==
    /\ InPipeline
    /\ server.pipeline.generation # NoValue
    /\ ~ server.pipeline.generation.success

\* the requests to the storage and to the vision-analysis collaborator
SaveCalls == {i \in 1..Len(http) : http[i].method = "PUT"}

AnalysisCalls ==
    {i \in 1..Len(http) : "to" \in DOMAIN http[i] /\ http[i].to = "vision"}

\* the wait ended with the backend's status "Error" and an error detail
BackendErrorDetail ==
    /\ Get(status, "status", None) = "Error"
    /\ "error" \in DOMAIN status

Parses == "req" \in DOMAIN server.form \/ ValidPayload(server.form.payload)

\* C22 as stated: every request to the pipeline ends with a response, never
\* with an exception or an HTTP error.
C22_NeverRaises ==
    (Finished /\ PipelineEndpoint) => (pc = "returned" /\ err = NoError)

\* C22: every request to the pipeline whose payload parses ends with a
\* response and not with an exception, a failed generation included; the
\* response of /images/pipeline records the failing stage and its message.
\* A request whose payload does not parse is answered with HTTP 422 before
\* the pipeline runs.
C22_ParsedNeverRaises ==
    (Finished /\ PipelineEndpoint) =>
        IF Parses
        THEN /\ pc = "returned"
             /\ err = NoError
             /\ PipelineForm =>
                   /\ ret.generation = server.pipeline.generation
                   /\ ~ ret.generation.success =>
                         /\ ret.generation.stage = "generation"
                         /\ ret.generation.message # <<>>
        ELSE /\ pc = "raised"
             /\ err.msg[1] = 422
             /\ ~ InPipeline
             /\ http = <<>>

C22_Witness ==
    /\ Finished
    /\ PipelineForm
    /\ pc = "returned"
    /\ GenerationFailed
    /\ Submissions # {}
    /\ ret.generation.stage = "generation"

\* C23: in every response of /images/pipeline the save result is present
\* if and only if save_options.enabled, and the analysis result if and only
\* if analysis_options.enabled and the generation succeeded;
\* /images/generate-with-analysis, which enables saving, always has a save
\* result to return, whether or not the generation succeeded.
C23_ResultsPresentIffEnabled ==
    (Finished /\ PipelineEndpoint /\ Parses) =>
        /\ pc = "returned"
        /\ PipelineForm =>
              /\ ret.save # NoValue
                    <=> server.pipeline.request.save_options.enabled
              /\ ret.analysis # NoValue
                    <=> /\ server.pipeline.request.analysis_options.enabled
                        /\ ret.generation.success
        /\ ~ PipelineForm =>
              /\ ret # NoValue
              /\ ret = save_result(server.pipeline)

C23_Witness ==
    /\ Finished
    /\ PipelineForm
    /\ pc = "returned"
    /\ server.pipeline.request.save_options.enabled
    /\ server.pipeline.request.analysis_options.enabled
    /\ ~ ret.generation.success
    /\ ret.save # NoValue
    /\ ret.analysis = NoValue

\* the edit request carries no source image
EditWithoutImage ==
    \/ /\ EditEndpoint
       /\ ~ Truthy(server.request.image_prompt)
    \/ /\ InPipeline
       /\ server.pipeline.request.action = "edit"
       /\ server.pipeline.source_images = <<>>

\* C24: an edit request without a source image sends no request of any kind
\* and ends in a validation failure: /flux/edit raises with the detail of
\* the failed validation (or 503 without a client), the pipeline records
\* the validation error as the failure of the generation stage.
C24_EditWithoutImageFailsFast ==
    EditWithoutImage =>
        /\ http = <<>>
        /\ Finished =>
              IF EditEndpoint
              THEN /\ pc = "raised"
                   /\ server.flux_client # None =>
                         /\ err.msg[2][2][1] = 400
                         /\ err.msg[2][2][2] =
                               edit_validation_detail(server.request)
              ELSE /\ pc = "returned"
                   /\ ret.generation.stage = "generation"
                   /\ ret.generation.message[1] = "ValidationError"

C24_Witness ==
    /\ Finished
    /\ EditEndpoint
    /\ server.flux_client # None
    /\ server.request.model = "flux-kontext"
    /\ ~ Truthy(server.request.image_prompt)
    /\ pc = "raised"
    /\ http = <<>>

\* C26 as stated: a request to /flux/edit whose model is not flux-kontext
\* or whose image_prompt is missing is answered with status 400, one that
\* arrives without a Flux client with 503, and no request is sent.
C26_ValidationAnswered400 ==
    (Finished /\ EditEndpoint) =>
        /\ server.flux_client = None =>
              /\ pc = "raised"
              /\ err.msg[1] = 503
              /\ http = <<>>
        /\ (server.flux_client # None
              /\ edit_validation_detail(server.request) # None) =>
              /\ pc = "raised"
              /\ err.msg[1] = 400
              /\ http = <<>>


-----------------------------------------------------------------------------
(* The metadata store: DataverseClient                                    *)
(* (src/backend/core/dataverse_client.py) and its endpoints               *)
(* (src/backend/api/endpoints/dataverse.py). self is the client, pc the   *)
(* running operation, which args names; server is NoValue for a direct    *)
(* call of the client and [dataverse_client, endpoint] for a request to   *)
(* an endpoint.                                                           *)

\* DataverseClient(): not enabled without an environment URL or when the
\* authentication fails
DataverseClient(environment_url, authenticated) ==
    IF ~ Truthy(environment_url)
    THEN [environment_url |-> environment_url,
          table_name |-> "cr6f1_visionassets",
          enabled |-> FALSE]
    ELSE [environment_url |-> environment_url,
          table_name |-> "cr6f1_visionassets",
          enabled |-> authenticated,
          api_url |-> <<environment_url, "/api/data/v9.2">>]

\* get_dataverse_client(): no client without an environment URL
get_dataverse_client(environment_url) ==
    IF Truthy(environment_url) THEN "dataverse_client" ELSE None

DataverseOperations ==
    {"store_image_metadata", "query_images", "update_image_tags",
     "delete_image_record"}

\* what an operation returns when it did not succeed: no record id, no
\* records, False
failure_result(op) ==
    IF op = "store_image_metadata" THEN None
    ELSE IF op = "query_images" THEN <<>>
    ELSE "False"

\* what an operation returns for the status code of its success
success_result(op) ==
    IF op = "store_image_metadata" THEN "rec-1"
    ELSE IF op = "query_images" THEN <<[id |-> "rec-1"]>>
    ELSE "True"

\* the request an operation sends to the store
dataverse_request(op) ==
    [method |-> IF op = "store_image_metadata" THEN "POST"
                ELSE IF op = "query_images" THEN "GET"
                ELSE IF op = "update_image_tags" THEN "PATCH"
                ELSE "DELETE",
     url |-> IF op \in {"store_image_metadata", "query_images"}
             THEN <<self.api_url, "/", self.table_name>>
             ELSE <<self.api_url, "/", self.table_name, "(", "rec-1", ")">>]

\* if not self.enabled: return None, [] or False
not_enabled ==
    /\ pc \in DataverseOperations
    /\ ~ self.enabled
    /\ ret' = failure_result(pc)
    /\ pc' = "returned"
    /\ UNCHANGED <<self, hostVars, now, waitLocals, soraLocals, http, err>>

\* a variant of the operations that does not ask whether the client is
\* enabled
dataverse_operation_unguarded ==
    /\ pc \in DataverseOperations
    /\ http' = Append(http, [method |-> "POST", url |-> <<self.table_name>>])
    /\ ret' = success_result(pc)
    /\ pc' = "returned"
    /\ UNCHANGED <<self, hostVars, now, waitLocals, soraLocals, err>>

\* the operation of an enabled client: the request is sent, and the result
\* is that of the success for the operation's status code only; an
\* exception of the request is caught and gives the same result
dataverse_operation ==
    /\ pc \in DataverseOperations
    /\ self.enabled
    /\ http' = Append(http, dataverse_request(pc))
    /\ \E status_code \in {200, 201, 204, 403} :
          ret' = IF status_code = (IF pc = "store_image_metadata" THEN 201
                                   ELSE IF pc = "query_images" THEN 200
                                   ELSE 204)
                 THEN success_result(pc) ELSE failure_result(pc)
    /\ pc' = "returned"
    /\ UNCHANGED <<self, hostVars, now, waitLocals, soraLocals, err>>

\* the client is there and enabled
dataverse_available ==
    server.dataverse_client # None /\ self.enabled

\* if not dataverse_client or not dataverse_client.enabled:
\*     raise HTTPException(status_code=503, ...)
not_available ==
    /\ pc = "dataverse_endpoint"
    /\ server.endpoint \in DataverseOperations
    /\ ~ dataverse_available
    /\ err' = HTTPException(503,
                 "Dataverse service is not available or not configured")
    /\ pc' = "raised"
    /\ UNCHANGED <<self, hostVars, now, waitLocals, soraLocals, http, ret>>

\* the endpoint calls the client's operation
dataverse_endpoint ==
    /\ pc = "dataverse_endpoint"
    /\ server.endpoint \in DataverseOperations
    /\ dataverse_available
    /\ stack' = Append(stack, Frame("dataverse_endpoint", server.endpoint))
    /\ args' = [operation |-> server.endpoint]
    /\ pc' = server.endpoint
    /\ UNCHANGED <<self, backend, server, now, waitLocals, heap, response,
                   response2, http, ret, err>>

\* the endpoint answers: the query with its records, the others with
\* success or, for a false result, with HTTPException(status_code=500)
dataverse_endpoint_return ==
    /\ ReturnedTo("dataverse_endpoint", server.endpoint)
    /\ IF server.endpoint = "query_images"
       THEN /\ ret' = [success |-> "True", images |-> ret, count |-> Len(ret)]
            /\ UNCHANGED <<pc, err>>
       ELSE IF Truthy(ret)
       THEN /\ ret' = [success |-> "True"]
            /\ UNCHANGED <<pc, err>>
       ELSE /\ err' = HTTPException(500, <<"Failed to ", server.endpoint>>)
            /\ ret' = NoValue
            /\ pc' = "raised"
    /\ stack' = Pop
    /\ UNCHANGED <<self, backend, server, now, waitLocals, soraLocals, http>>

\* GET /dataverse/status reports the state of the client and never raises
get_dataverse_status ==
    /\ pc = "dataverse_endpoint"
    /\ server.endpoint = "get_dataverse_status"
    /\ ret' = IF server.dataverse_client = None
              THEN [enabled |-> FALSE, configured |-> FALSE]
              ELSE [enabled |-> self.enabled,
                    configured |-> Truthy(self.environment_url)]
    /\ pc' = "returned"
    /\ UNCHANGED <<self, hostVars, now, waitLocals, soraLocals, http, err>>

\* the next call of the client, or the next request to an endpoint
next_dataverse_call ==
    /\ pc \in {"returned", "raised"}
    /\ stack = <<>>
    /\ Len(http) < MaxRequests
    /\ IF server = NoValue
       THEN /\ pc' \in DataverseOperations
            /\ args' = [operation |-> pc']
            /\ UNCHANGED server
       ELSE /\ pc' = "dataverse_endpoint"
            /\ \E e \in DataverseOperations \cup {"get_dataverse_status"} :
                  server' = [server EXCEPT !.endpoint = e]
            /\ args' = NoValue
    /\ ret' = NoValue
    /\ err' = NoError
    /\ UNCHANGED <<self, stack, backend, now, waitLocals, heap, response,
                   response2, http>>

InitDataverse ==
    /\ \E environment_url \in {None, "https://org.crm.dynamics.com"},
          authenticated \in BOOLEAN :
          /\ self = DataverseClient(environment_url, authenticated)
          /\ \/ /\ server = NoValue
                /\ pc \in DataverseOperations
                /\ args = [operation |-> pc]
             \/ /\ server \in
                      [dataverse_client :
                           {get_dataverse_client(environment_url)},
                       endpoint : DataverseOperations
                                    \cup {"get_dataverse_status"}]
                /\ pc = "dataverse_endpoint"
                /\ args = NoValue
    /\ stack = <<>>
    /\ backend = NoValue
    /\ heap = <<>>
    /\ response = NoValue
    /\ response2 = NoValue
    /\ now = 0
    /\ start_time = 0
    /\ max_wait_time = 0
    /\ poll_interval = 1
    /\ status = NoValue
    /\ answers = <<>>
    /\ sleeps = <<>>
    /\ http = <<>>
    /\ ret = NoValue
    /\ err = NoError

NextDataverse ==
    \/ not_enabled
    \/ dataverse_operation
    \/ not_available
    \/ dataverse_endpoint
    \/ dataverse_endpoint_return
    \/ get_dataverse_status
    \/ next_dataverse_call

SpecDataverse == InitDataverse /\ [][NextDataverse]_vars

\* the running or finished call is one of the client, not of an endpoint
DirectCall == server = NoValue

\* no operation has sent a request, and a call of the client has not raised
\* and has returned what the operation returns without a success
OperationsSkipped ==
    /\ http = <<>>
    /\ DirectCall =>
          /\ pc # "raised"
          /\ pc = "returned" => ret = failure_result(args.operation)

\* C25 as stated: with the store not configured or not enabled every
\* operation is skipped without raising and without a request, returning
\* None, [] or False, and the callers of the operations do not fail
\* either: no request to an endpoint ends in an error.
C25_AbsenceIsNonFatal ==
    ~ self.enabled => (OperationsSkipped /\ pc # "raised")

\* C25: with the store not configured or not enabled no operation of the
\* client raises or sends a request: store_image_metadata returns None,
\* query_images [], update_image_tags and delete_image_record False. The
\* endpoints that call these operations answer a request with HTTP 503 in
\* that condition, without calling the operation; only the status endpoint
\* reports the absence without an error.
C25_SkippedSilently ==
    ~ self.enabled =>
        /\ OperationsSkipped
        /\ (~ DirectCall /\ pc \in {"returned", "raised"}) =>
              IF server.endpoint = "get_dataverse_status"
              THEN pc = "returned" /\ ~ ret.enabled
              ELSE pc = "raised" /\ err.msg[1] = 503

C25_Witness ==
    /\ DirectCall
    /\ ~ self.enabled
    /\ Truthy(self.environment_url)
    /\ args.operation = "query_images"
    /\ pc = "returned"
    /\ ret = <<>>

====
